---- MODULE Spec2Model ----
(***************************************************************************)
(* yav: the screen abstraction layer (pixel format, geometry, blit/clear   *)
(* engine, animation driver and cancellation flag), the colour parser and  *)
(* the two device backends: framebuffer_screen and drm, from their         *)
(* construction to their destruction.                                      *)
(*                                                                         *)
(* Conventions of the model                                                *)
(*  - a size_t pixel word is the set of its set bit positions (0..63), so  *)
(*    that 32-bit layouts such as A@24 need no wide integer arithmetic;    *)
(*  - a float anchor (ax, ay) is stored as a number of halves: the value 1 *)
(*    stands for 0.5f, 2 for 1.0f, 3 for 1.5f.  Halves and small integers  *)
(*    are exact in binary32, so the float expression of get_position is    *)
(*    exact and only the final float -> int truncation has to be modelled; *)
(*  - byte buffers are 1-based sequences: byte offset o is element o + 1;  *)
(*  - a C string is the sequence of the ASCII codes of its characters;     *)
(*  - a sequence of the code indexed from 0 is a sequence indexed from 1:   *)
(*    the connector or mode at index i of the code is element i + 1;       *)
(*  - a call that can end without a value has the record of its outcome as *)
(*    result: the signal or exception that ended it ("" for a return) and  *)
(*    the value returned;                                                  *)
(*  - a local that the code computes once and uses often is bound by a     *)
(*    quantifier over a singleton set (\E v \in {e} : ..., Only({...})),    *)
(*    which evaluates e once also when TLC evaluates ENABLED.               *)
(***************************************************************************)
EXTENDS Integers, Sequences, FiniteSets, TLC

VARIABLES
    dev,             \* backend tag of the screen: "fb" or "drm"
    sw, sh,          \* width() and height() of the surface
    fmt,             \* form(): the surface's pixel format
    buf,             \* data(): the surface buffer, a sequence of bytes
    scanout,         \* what the display pipeline shows: "own" buffer or "orig"
    view,            \* screen::view
    img,             \* the image handed to blit()
    is_interrupted,  \* the cancellation flag
    pc,              \* position of the main program
    c,               \* argument of the running clear()
    count, frame,    \* locals of blit()
    x, y,            \* loop counters of blit_frame() / clear()
    args,            \* the command line: --clear, its argument, --image
    buf0,            \* history: the buffer when the running blit_frame/clear began
    wr,              \* history: byte offsets written by the running blit_frame/clear
    trace,           \* history: the events so far
    call,            \* a library function called on its own: its name and arguments
    ret,             \* the outcomes of that call so far, <<>> while it is pending
    fbdev,           \* the framebuffer object under construction and its device nodes
    drmdev           \* the drm object, its device and the calls made on it

vars == <<dev, sw, sh, fmt, buf, scanout, view, img, is_interrupted, pc, c,
          count, frame, x, y, args, buf0, wr, trace, call, ret, fbdev,
          drmdev>>

----------------------------------------------------------------------------
(* Bounds of the model *)

MaxLoops == 2
MaxFrames == 3
TraceCap == 30

----------------------------------------------------------------------------
(* Integer helpers *)

Max2(a, b) == IF a >= b THEN a ELSE b
Min2(a, b) == IF a <= b THEN a ELSE b

Pow2(n) == IF n <= 0 THEN 1 ELSE 2 ^ n

\* the element of a singleton set
Only(S) == CHOOSE v \in S : TRUE

\* float -> int conversion of the rational n / d (d > 0): truncation toward zero
TruncDiv(n, d) == IF n >= 0 THEN n \div d ELSE -((-n) \div d)

\* the bits of a non-negative integer, as a set of bit positions
Bits(n) == Only({{i \in 0..30 : (v \div Pow2(i)) % 2 = 1} : v \in {n}})

RECURSIVE SumPow2(_)
SumPow2(S) == IF S = {} THEN 0
              ELSE LET i == CHOOSE k \in S : TRUE IN Pow2(i) + SumPow2(S \ {i})

----------------------------------------------------------------------------
(* format.cpp: channel and format *)

\* channel::channel(length, offset)
channel(length, offset) ==
    [length |-> length, offset |-> offset, mask |-> Pow2(length) - 1]

\* channel{}: the default-initialised, unused channel
channel_none == [length |-> 0, offset |-> 0, mask |-> 0]

is_used(ch) == ch.mask # 0

\* channel::encode: ((value * mask) / 255 & mask) << offset, as a size_t word
encode_rounded(ch, value) ==
    LET mapped == (value * ch.mask + 127) \div 255
    IN  {ch.offset + i : i \in Bits(mapped) \cap Bits(ch.mask)} \cap (0..63)
encode(ch, value) ==
    LET mapped == (value * ch.mask) \div 255
    IN  {ch.offset + i : i \in Bits(mapped) \cap Bits(ch.mask)} \cap (0..63)

\* the field (value >> offset) & mask of a pixel word
field(ch, value) ==
    Only({SumPow2({i \in Bits(ch.mask) : (ch.offset + i) \in w}) : w \in {value}})

\* how a call ends: it returns a value, or the process is killed by a signal
returned(v) == [signal |-> "", value |-> v]
trapped(v) == [signal |-> "SIGFPE", value |-> v]

\* channel::decode: (field * 255) / mask narrowed to uint8_t, as the set of
\* its outcomes.  A channel with mask 0 divides 0 by 0, which is undefined:
\* the divide instruction traps (x86) or yields 0 (AArch64, ARM EABI helper)
decode(ch, value) ==
    IF ch.mask = 0 THEN {trapped(0), returned(0)}
    ELSE {returned(((field(ch, value) * 255) \div ch.mask) % 256)}

format(bits, r, g, b, a) == [bits |-> bits, r |-> r, g |-> g, b |-> b, a |-> a]

pseudocolor(f) == is_used(f.r) /\ is_used(f.g) /\ is_used(f.b)

color_any_offsets(f) == pseudocolor(f)
color(f) ==
    /\ pseudocolor(f)
    /\ f.r.offset # f.g.offset
    /\ f.g.offset # f.b.offset
    /\ f.r.offset # f.b.offset

encode_rgb_swapped(f, sr, sg, sb) == encode(f.r, sb) \cup encode(f.g, sg) \cup encode(f.b, sr)
encode_rgb(f, sr, sg, sb) == encode(f.r, sr) \cup encode(f.g, sg) \cup encode(f.b, sb)

encode_alpha(f, alpha) == encode(f.a, alpha)

bytes(f) == f.bits \div 8

\* format::decode_rgb, as the set of its outcomes: the three channels are
\* decoded in turn and a trap in one of them ends the call
decode_rgb(f, pixel) ==
    UNION {{IF dr.signal # "" \/ dg.signal # "" \/ db.signal # ""
            THEN trapped([r |-> 0, g |-> 0, b |-> 0])
            ELSE returned([r |-> dr.value, g |-> dg.value, b |-> db.value]) :
               dr \in decode(f.r, w), dg \in decode(f.g, w), db \in decode(f.b, w)}
           : w \in {pixel}}

----------------------------------------------------------------------------
(* color.cpp *)

\* color{}: the zero-initialised colour
color_zero == [r |-> 0, g |-> 0, b |-> 0, a |-> 0]

\* a call that ends by throwing std::runtime_error
thrown(v) == [signal |-> "runtime_error", value |-> v]

\* A C string is the sequence of the ASCII codes of its characters, without
\* the terminating 0.  '#' = 35, '-' = 45, '0'..'9' = 48..57, 'A'..'F' =
\* 65..70, 'a'..'f' = 97..102, 'x' = 120.

\* parse_nibble: the value of a hex digit, or the exception
parse_nibble(digit) ==
    IF digit <= 57 /\ digit >= 48 THEN returned(digit - 48)
    ELSE IF digit <= 102 /\ digit >= 97 THEN returned(digit - 97 + 10)
    ELSE IF digit <= 70 /\ digit >= 65 THEN returned(digit - 65 + 10)
    ELSE thrown(0)

\* parse_byte(code + off): (parse_nibble(pair[0]) << 4) | parse_nibble(pair[1])
parse_byte(code, off) ==
    LET hi == parse_nibble(code[off + 1])
        lo == parse_nibble(code[off + 2])
    IN  IF hi.signal # "" \/ lo.signal # "" THEN thrown(0)
        ELSE returned(16 * hi.value + lo.value)

\* color::parse: the prefix test.  code[1] of the one-character string "0"
\* is the terminating 0, which is not 'x'
strip_hash_only(code) == IF code[1] = 35 THEN Tail(code) ELSE code
strip(code) ==
    IF code[1] = 35 THEN Tail(code)
    ELSE IF code[1] = 48 /\ Len(code) >= 2 /\ code[2] = 120 THEN Tail(Tail(code))
    ELSE code

\* color::parse: c.r, c.g, c.b from six digits; c.a is left as it is
parse_rgb(digits, col) ==
    LET pr == parse_byte(digits, 0)
        pg == parse_byte(digits, 2)
        pb == parse_byte(digits, 4)
    IN  IF pr.signal # "" \/ pg.signal # "" \/ pb.signal # "" THEN thrown(color_zero)
        ELSE returned([r |-> pr.value, g |-> pg.value, b |-> pb.value, a |-> col.a])

\* color::parse from "color c{}" on, c{} being col
parse_digits(code, col) ==
    IF Len(code) = 8
    THEN LET pa == parse_byte(code, 0)
         IN  IF pa.signal # "" THEN thrown(color_zero)
             ELSE parse_rgb(SubSeq(code, 3, 8), [col EXCEPT !.a = pa.value])
    ELSE IF Len(code) # 6 THEN thrown(color_zero)
    ELSE parse_rgb(code, col)

\* color::parse
parse_opaque(code) ==
    IF code = <<>> THEN returned(color_zero)
    ELSE parse_digits(strip(code), [color_zero EXCEPT !.a = 255])
parse(code) ==
    IF code = <<>> THEN returned(color_zero)
    ELSE parse_digits(strip(code), color_zero)

\* color::from_rgba: direct copy of the four bytes at byte offset off
from_rgba(data, off) ==
    [r |-> data[off + 1], g |-> data[off + 2], b |-> data[off + 3], a |-> data[off + 4]]

----------------------------------------------------------------------------
(* viewport.cpp: position, constraint, viewport *)

position(px, py) == [x |-> px, y |-> py]

\* constraint::constraint(x, y, w, h)
constraint(px, py, w, h) == [min |-> position(px, py), max |-> position(px + w, py + h)]

width(box) == box.max.x - box.min.x

height(box) == box.max.y - box.min.y

\* constraint::offset
offset_absolute(box, other) == position(other.min.x, other.min.y)
offset(box, other) == position(other.min.x - box.min.x, other.min.y - box.min.y)

\* one iteration of the loop of get_constraint_intersection
intersect_step(inter, box) ==
    [min |-> position(Max2(inter.min.x, box.min.x), Max2(inter.min.y, box.min.y)),
     max |-> position(Min2(inter.max.x, box.max.x), Min2(inter.max.y, box.max.y))]

RECURSIVE intersect_from(_, _, _)
intersect_from(inter, boxes, i) ==
    IF i > Len(boxes) THEN inter
    ELSE Only({intersect_from(nx, boxes, i + 1) : nx \in {intersect_step(inter, boxes[i])}})

\* get_constraint_intersection: seeded from the first box, folded over all
get_constraint_intersection_first(boxes) == boxes[1]
get_constraint_intersection(boxes) ==
    Only({intersect_from(bs[1], bs, 1) : bs \in {boxes}})

\* viewport::get_position; ax, ay are in halves, so the float expression
\* ox + cw * ax - w * ax + min.x is (2 ox + cw a - w a + 2 min.x) / 2,
\* converted to int by truncation toward zero
get_position_surface(v, canvas) ==
    position(TruncDiv(2 * v.ox + width(canvas) * v.ax - v.w * v.ax, 2),
             TruncDiv(2 * v.oy + height(canvas) * v.ay - v.h * v.ay, 2))
get_position(v, canvas) ==
    Only({position(
            TruncDiv(2 * v.ox + width(cv) * v.ax - v.w * v.ax + 2 * cv.min.x, 2),
            TruncDiv(2 * v.oy + height(cv) * v.ay - v.h * v.ay + 2 * cv.min.y, 2))
          : cv \in {canvas}})

\* viewport::get_constraint
get_constraint(v, canvas) ==
    Only({[min |-> p, max |-> position(p.x + v.w, p.y + v.h)]
          : p \in {get_position(v, canvas)}})

\* viewport::viewport(): fill the container, anchored top-left
viewport_default == [w |-> -1, h |-> -1, ax |-> 0, ay |-> 0, ox |-> 0, oy |-> 0]

----------------------------------------------------------------------------
(* screen.cpp: helpers *)

\* the bytes-wide little-endian word stored at byte offset off of b
load(b, off, n) ==
    {p \in 0..(8 * n - 1) : (p % 8) \in Bits(b[off + (p \div 8) + 1])}

\* byte j of a pixel word
word_byte(word, j) == SumPow2({i \in 0..7 : (8 * j + i) \in word})

\* memcpy(target, &word, n) with target = b + off
store(b, off, word, n) ==
    Only({[k \in DOMAIN b |->
              IF off < k /\ k <= off + n THEN word_byte(w, k - off - 1) ELSE b[k]]
          : w \in {word}})

\* one channel of blend(): uint8_t(s * foreground + d * background) with
\* foreground = a / 255.0f.  The exact value is (s a + d (255 - a)) / 255; the
\* binary32 result truncates to its floor, except that when the exact value is
\* a positive integer and 0 < a < 255 the rounding of the two products may
\* leave the sum just below it, depending on the build's float contraction.
blend_channel(s, d, a) ==
    LET num == s * a + d * (255 - a)
    IN  IF num % 255 = 0 /\ num > 0 /\ a > 0 /\ a < 255
        THEN {num \div 255 - 1, num \div 255}
        ELSE {num \div 255}

\* blend(s, backbuffer_pixel, fmt, bytes): the possible values of s afterwards.
\* The format of a constructed screen has its r, g and b channels in use
\* (drm_screen::form is a constant, framebuffer_screen insists on has_color),
\* so that decode_rgb returns here
blend(s, b, off, f, n) ==
    UNION {{[r |-> rr, g |-> gg, b |-> bb, a |-> s.a] :
               rr \in blend_channel(s.r, d.value.r, s.a),
               gg \in blend_channel(s.g, d.value.g, s.a),
               bb \in blend_channel(s.b, d.value.b, s.a)}
           : d \in {o \in decode_rgb(f, load(b, off, n)) : o.signal = ""}}

\* get_offset
get_offset(o, px, py, line, point) == ((o.x + px) + (o.y + py) * line) * point

\* std::min(fmt.bytes(), 8UL)
pixel_bytes(f) == Min2(bytes(f), 8)

\* screen::get_viewport
get_viewport_unsized(v, box) == get_constraint(v, box)
get_viewport(v, box) ==
    Only({get_constraint(sized, box)
          : sized \in {[v EXCEPT !.w = IF v.w = -1 THEN width(box) ELSE v.w,
                                 !.h = IF v.h = -1 THEN height(box) ELSE v.h]}})

----------------------------------------------------------------------------
(* The inputs: devices, command lines and images *)

\* drm_screen::form(): the fixed layout of the dumb buffer
DrmFormat == format(32, channel(8, 16), channel(8, 8), channel(8, 0), channel(8, 24))

\* a 16-bit 565 layout as a framebuffer device reports it
Fb565Format == format(16, channel(5, 11), channel(6, 5), channel(5, 0), channel_none)

\* the layout framebuffer_screen requests when the device has no colour
FbFallbackFormat == format(32, channel(8, 0), channel(8, 8), channel(8, 16), channel_none)

Screens ==
    {[dev |-> "drm", fmt |-> DrmFormat],
     [dev |-> "fb", fmt |-> Fb565Format],
     [dev |-> "fb", fmt |-> FbFallbackFormat]}

\* contents of the mapped buffer before the program draws: n bytes
InitialBuffer(n, k) == [i \in 1..n |-> (k * (37 * i + 5)) % 256]

\* RGBA source pixels: opaque, fully transparent, half transparent
Palette == << <<255, 125, 0, 255>>, <<9, 200, 77, 0>>, <<20, 40, 250, 128>> >>

\* the decoded RGBA8888 buffer of one frame (f = 1 for frame 0)
FrameData(w, h, f, pat) ==
    [k \in 1..(4 * w * h) |->
        Palette[(((k - 1) \div 4 + f + pat) % Len(Palette)) + 1][((k - 1) % 4) + 1]]

\* an opened image (image.hpp).  blit_frame calls img.get_position(view): the
\* image is a viewport, whose w and h are its width() and height() and whose
\* anchor and offset place it
Image(w, h, frames, loops, blending, ax, ay, ox, oy, pat) ==
    [w |-> w, h |-> h, frames |-> frames, loops |-> loops, blend |-> blending,
     ax |-> ax, ay |-> ay, ox |-> ox, oy |-> oy,
     data |-> [f \in 1..frames |-> FrameData(w, h, f, pat)]]

\* the argument that follows --clear: none, the option "-b", "ff0000",
\* "#ff0000", "0xff0000", "ffff7d00", "80123456", "00ff7d00", "zz0000", "ff00"
ClearTokens ==
    {<<>>,
     <<45, 98>>,
     <<102, 102, 48, 48, 48, 48>>,
     <<35, 102, 102, 48, 48, 48, 48>>,
     <<48, 120, 102, 102, 48, 48, 48, 48>>,
     <<102, 102, 102, 102, 55, 100, 48, 48>>,
     <<56, 48, 49, 50, 51, 52, 53, 54>>,
     <<48, 48, 102, 102, 55, 100, 48, 48>>,
     <<122, 122, 48, 48, 48, 48>>,
     <<102, 102, 48, 48>>}

\* --view <ox> <oy> <w> <h> and --view-anchor <ax> <ay>; the last three lie
\* beside, far beside and above the 3x2 surface
Views ==
    {viewport_default}
    \cup [w : {2}, h : {1}, ax : {0, 1, 2}, ay : {0}, ox : {-1, 0, 1}, oy : {0, 1}]
    \cup [w : {-1}, h : {-1, 1}, ax : {2}, ay : {2}, ox : {1}, oy : {0}]
    \cup [w : {2}, h : {1}, ax : {0}, ay : {0}, ox : {3, 5}, oy : {0}]
    \cup [w : {2}, h : {1}, ax : {0}, ay : {0}, ox : {0}, oy : {-2}]

\* images of one frame shown once, placed by --anchor and --offset
StillImages ==
    {Image(w, w, 1, 1, bl, ax, ay, ox, 0, 0) :
        w \in {1, 2}, bl \in BOOLEAN,
        ax \in {0, 1, 2, 3}, ay \in {0, 2}, ox \in {-2, 0, 1}}

\* 1x1 animations as the constructor of image leaves them: the frame count
\* of the file, and int loops = 1 (image.hpp) until --loop assigns it
Animations ==
    {Image(1, 1, fr, 1, bl, 0, 0, 0, 0, pat) :
        fr \in 0..MaxFrames, bl \in BOOLEAN, pat \in {0}}

\* --loop on the command line: absent; followed by an argument that is empty
\* or does not start with a digit ("option", e.g. --blend); followed by the
\* digits of times; followed by digits std::stoi cannot hold ("huge"); or
\* the last argument, with nothing after it ("last")
LoopArgs ==
    [form : {"absent", "option", "huge", "last"}, times : {0}]
        \cup [form : {"times"}, times : 0..MaxLoops]

----------------------------------------------------------------------------
(* The state machine: entry() of main.cpp running clear() and blit() *)

Event(e, n) == [ev |-> e, n |-> n]

\* the history is kept up to TraceCap events
Log(e, n) == IF Len(trace) < TraceCap THEN Append(trace, Event(e, n)) ELSE trace

\* constraint scrc{0, 0, width(), height()}
scrc == constraint(0, 0, sw, sh)

\* constraint view = get_viewport(scrc)
viewc == get_viewport(view, scrc)

\* position placed = img.get_position(view); constraint imgc{placed, w, h}
imgc_on_surface ==
    Only({constraint(placed.x, placed.y, img.w, img.h)
          : placed \in {get_position(img, scrc)}})
imgc ==
    Only({constraint(placed.x, placed.y, img.w, img.h)
          : placed \in {get_position(img, viewc)}})

\* the region blit_frame iterates over
blit_region_unclipped == get_constraint_intersection(<<scrc, imgc>>)
blit_region == get_constraint_intersection(<<scrc, imgc, viewc>>)

\* the region clear iterates over
clear_region == get_constraint_intersection(<<scrc, viewc>>)

\* was_interrupted() of interrupt.cpp
was_interrupted_never == FALSE
was_interrupted == is_interrupted

\* the word blit_frame and clear write for the colour s
encoded_source_alpha(s) == encode_rgb(fmt, s.r, s.g, s.b) \cup encode_alpha(fmt, s.a)
encoded(s) == encode_rgb(fmt, s.r, s.g, s.b) \cup encode_alpha(fmt, 255)

\* blit_frame: if (s.a == 0) continue
transparent_never(s) == FALSE
transparent(s) == s.a = 0

\* clear: if (c.a == 0) return
clear_skipped_never(col) == FALSE
clear_skipped(col) == col.a = 0

\* blit: auto last = img.frame_count() - 1
last == img.frames - 1

\* blit: if (frame != last) usleep(img.mspt)
sleep_wanted_always == TRUE
sleep_wanted == frame # last

\* blit: if (count > 0) count--
next_count_always(cnt) == cnt - 1
next_count(cnt) == IF cnt > 0 THEN cnt - 1 ELSE cnt

\* no library call is studied on its own
NoCall == call = [op |-> "none"] /\ ret = <<>>

\* the framebuffer constructor is not under study: no object, no device nodes
NoFb == fbdev = [at |-> "none"]

\* the drm object is not under study
NoDrm == drmdev = [at |-> "none"]

NoDevice == NoFb /\ NoDrm

InitCommon ==
    /\ NoCall /\ NoDevice
    /\ buf0 = buf
    /\ scanout = IF dev = "drm" THEN "orig" ELSE "own"
    /\ is_interrupted = FALSE
    /\ pc = "entry"
    /\ count = 0 /\ frame = 0 /\ x = 0 /\ y = 0
    /\ wr = <<>>
    /\ trace = <<>>

\* yav --view ... --image still.png --anchor ... --offset ... [--blend]
InitStill ==
    /\ \E s \in Screens : s.fmt # FbFallbackFormat /\ dev = s.dev /\ fmt = s.fmt
    /\ sw = 3 /\ sh = 2
    /\ buf = InitialBuffer(sw * sh * pixel_bytes(fmt), 1)
    /\ view \in Views
    /\ img \in StillImages
    /\ c = color_zero
    /\ args = [clear |-> FALSE, image |-> TRUE, color |-> <<>>,
               loop |-> [form |-> "absent", times |-> 0]]
    /\ InitCommon

\* yav --view ... --clear [color] [--image dot.png]
InitClear ==
    /\ \E s \in Screens : dev = s.dev /\ fmt = s.fmt
    /\ sw = 3 /\ sh = 2
    /\ \E k \in {0, 1} : buf = InitialBuffer(sw * sh * pixel_bytes(fmt), k)
    /\ view \in Views
    /\ args \in [clear : {TRUE}, image : BOOLEAN, color : ClearTokens,
                  loop : {[form |-> "absent", times |-> 0]}]
    \* get_flag("-b") searches every argument, the token after --clear included
    /\ img = Image(1, 1, 1, 1, args.image /\ args.color = <<45, 98>>, 0, 0, 0, 0, 0)
    /\ c = color_zero
    /\ InitCommon

\* yav --image anim.gif [--blend] [--loop [times]], --loop possibly last
InitAnimation ==
    /\ \E s \in Screens : dev = s.dev /\ fmt = s.fmt
    /\ sw = 1 /\ sh = 1
    /\ buf = InitialBuffer(sw * sh * pixel_bytes(fmt), 1)
    /\ view = viewport_default
    /\ img \in Animations
    /\ c = color_zero
    /\ args \in [clear : {FALSE}, image : {TRUE}, color : {<<>>}, loop : LoopArgs]
    /\ InitCommon

Init == InitStill \/ InitClear \/ InitAnimation

\* entry(): the colour of -c/--clear: the next argument is parsed if there is
\* one, it is not empty and does not start with "-"; otherwise color{}
clear_color(token) ==
    IF token # <<>> /\ token[1] # 45 THEN parse(token) ELSE returned(color_zero)

\* entry(): -c/--clear calls screen->clear(c); clear() returns at once when
\* c.a = 0.  An exception of color::parse ends entry()
EntryClear ==
    /\ pc = "entry"
    /\ IF args.clear
       THEN \E parsed \in {clear_color(args.color)} :
              IF parsed.signal # ""
              THEN /\ pc' = "error"
                   /\ UNCHANGED <<c, buf0, wr, x, y, trace>>
              ELSE /\ c' = parsed.value
                   /\ buf0' = buf
                   /\ wr' = <<>>
                   /\ x' = 0 /\ y' = 0
                   /\ trace' = Log("clear", parsed.value.a)
                   /\ pc' = IF clear_skipped(parsed.value) THEN "image" ELSE "clear"
       ELSE /\ pc' = "image"
            /\ UNCHANGED <<c, buf0, wr, x, y, trace>>
    /\ UNCHANGED <<call, ret, fbdev, drmdev>>
    /\ UNCHANGED <<dev, sw, sh, fmt, buf, scanout, view, img, is_interrupted,
                   count, frame, args>>

\* clear(): one iteration of the inner loop
ClearPixel ==
    /\ pc = "clear"
    /\ \E region \in {clear_region} :
         /\ y < height(region) /\ x < width(region)
         /\ \E target \in {get_offset(offset(scrc, region), x, y, sw, pixel_bytes(fmt))} :
              /\ \E s \in (IF c.a # 255
                            THEN blend(c, buf, target, fmt, pixel_bytes(fmt))
                            ELSE {c}) :
                   \E word \in {encoded(s)} :
                       buf' = store(buf, target, word, pixel_bytes(fmt))
              /\ wr' = Append(wr, target)
    /\ x' = x + 1
    /\ UNCHANGED <<call, ret, fbdev, drmdev>>
    /\ UNCHANGED <<dev, sw, sh, fmt, scanout, view, img, is_interrupted, pc, c,
                   count, frame, y, args, buf0, trace>>

\* clear(): the inner loop ends, next row
ClearRow ==
    /\ pc = "clear"
    /\ \E region \in {clear_region} : y < height(region) /\ x >= width(region)
    /\ x' = 0 /\ y' = y + 1
    /\ UNCHANGED <<call, ret, fbdev, drmdev>>
    /\ UNCHANGED <<dev, sw, sh, fmt, buf, scanout, view, img, is_interrupted, pc, c,
                   count, frame, args, buf0, wr, trace>>

\* clear(): the outer loop ends and clear returns
ClearReturn ==
    /\ pc = "clear"
    /\ y >= height(clear_region)
    /\ pc' = "image"
    /\ trace' = Log("cleared", Len(wr))
    /\ UNCHANGED <<call, ret, fbdev, drmdev>>
    /\ UNCHANGED <<dev, sw, sh, fmt, buf, scanout, view, img, is_interrupted, c,
                   count, frame, x, y, args, buf0, wr>>

\* entry(), the --loop block when an argument follows: int times = -1;
\* if (!next->empty() && std::isdigit(next->at(0))) { try { times =
\* std::stoi(*(it + 1)); } catch (...) { printf("Invalid value ..."); return; } }
\* The value assigned to img.loops, or the exception that is caught
loop_times(loop) ==
    IF loop.form = "times" THEN returned(loop.times)
    ELSE IF loop.form = "huge" THEN thrown(0)
    ELSE returned(-1)

\* entry(), the --loop block: auto next = it + 1 is not compared with
\* args.end().  When --loop is the last argument, next->empty() and
\* next->at(0) read a std::string that was never constructed, in the
\* capacity main reserved with args.reserve(argc).  What the bytes there
\* hold is not determined: the process is killed by SIGSEGV when the read
\* goes through a wild pointer, and otherwise the string reads as one of
\* the arguments that can follow --loop
loop_read(loop) ==
    IF loop.form = "last"
    THEN {[signal |-> "SIGSEGV", value |-> 0]}
             \cup {loop_times(l) : l \in {a \in LoopArgs : a.form \notin {"absent", "last"}}}
    ELSE {loop_times(loop)}

\* entry(): the --image block: --loop assigns img.loops, then
\* screen->blit(img); int count = img.loops.  "Invalid value given to
\* '--loop'!" returns from entry() before blit
EntryImage ==
    /\ pc = "image"
    /\ IF ~args.image
       THEN /\ pc' = "exit"
            /\ UNCHANGED <<img, count, trace>>
       ELSE IF args.loop.form = "absent"
       THEN /\ count' = img.loops
            /\ pc' = "while"
            /\ trace' = Log("blit", img.loops)
            /\ UNCHANGED img
       ELSE \E times \in loop_read(args.loop) :
              IF times.signal = "SIGSEGV"
              THEN /\ pc' = "killed"
                   /\ UNCHANGED <<img, count, trace>>
              ELSE IF times.signal # ""
              THEN /\ pc' = "exit"
                   /\ UNCHANGED <<img, count, trace>>
              ELSE /\ img' = [img EXCEPT !.loops = times.value]
                   /\ count' = times.value
                   /\ pc' = "while"
                   /\ trace' = Log("blit", times.value)
    /\ UNCHANGED <<call, ret, fbdev, drmdev>>
    /\ UNCHANGED <<dev, sw, sh, fmt, buf, scanout, view, is_interrupted, c,
                   frame, x, y, args, buf0, wr>>

\* blit(): while (count)
BlitWhile ==
    /\ pc = "while"
    /\ IF count # 0
       THEN /\ frame' = 0
            /\ pc' = "for"
            /\ UNCHANGED trace
       ELSE /\ pc' = "exit"
            /\ trace' = Log("return", 0)
            /\ UNCHANGED frame
    /\ UNCHANGED <<call, ret, fbdev, drmdev>>
    /\ UNCHANGED <<dev, sw, sh, fmt, buf, scanout, view, img, is_interrupted, c,
                   count, x, y, args, buf0, wr>>

\* blit(): for (frame <= last): enter blit_frame, or leave the pass and
\* decrement a positive count
BlitFor ==
    /\ pc = "for"
    /\ IF frame <= last
       THEN /\ pc' = "pixels"
            /\ x' = 0 /\ y' = 0
            /\ buf0' = buf
            /\ wr' = <<>>
            /\ trace' = Log("draw", frame)
            /\ UNCHANGED count
       ELSE /\ count' = next_count(count)
            /\ pc' = "while"
            /\ UNCHANGED <<x, y, buf0, wr, trace>>
    /\ UNCHANGED <<call, ret, fbdev, drmdev>>
    /\ UNCHANGED <<dev, sw, sh, fmt, buf, scanout, view, img, is_interrupted, c,
                   frame, args>>

\* blit_frame(): one iteration of the inner loop
FramePixel ==
    /\ pc = "pixels"
    /\ \E region \in {blit_region} :
         /\ y < height(region) /\ x < width(region)
         /\ \E screen_pixel \in {get_offset(offset(scrc, region), x, y, sw, pixel_bytes(fmt))},
               image_pixel \in {get_offset(offset(imgc, region), x, y, img.w, 4)} :
              \E src \in {from_rgba(img.data[frame + 1], image_pixel)} :
                 IF transparent(src)
                 THEN UNCHANGED <<buf, wr>>
                 ELSE /\ \E s \in (IF img.blend
                                   THEN blend(src, buf, screen_pixel, fmt, pixel_bytes(fmt))
                                   ELSE {src}) :
                          \E word \in {encoded(s)} :
                              buf' = store(buf, screen_pixel, word, pixel_bytes(fmt))
                      /\ wr' = Append(wr, screen_pixel)
    /\ x' = x + 1
    /\ UNCHANGED <<call, ret, fbdev, drmdev>>
    /\ UNCHANGED <<dev, sw, sh, fmt, scanout, view, img, is_interrupted, pc, c,
                   count, frame, y, args, buf0, trace>>

\* blit_frame(): the inner loop ends, next row
FrameRow ==
    /\ pc = "pixels"
    /\ \E region \in {blit_region} : y < height(region) /\ x >= width(region)
    /\ x' = 0 /\ y' = y + 1
    /\ UNCHANGED <<call, ret, fbdev, drmdev>>
    /\ UNCHANGED <<dev, sw, sh, fmt, buf, scanout, view, img, is_interrupted, pc, c,
                   count, frame, args, buf0, wr, trace>>

\* blit_frame() returning without flush()
FrameFlush_omitted ==
    /\ pc = "pixels"
    /\ y >= height(blit_region)
    /\ pc' = "poll"
    /\ UNCHANGED <<call, ret, fbdev, drmdev>>
    /\ UNCHANGED <<dev, sw, sh, fmt, buf, scanout, view, img, is_interrupted, c,
                   count, frame, x, y, args, buf0, wr, trace>>

\* blit_frame(): the outer loop ends, flush() and return.  The framebuffer's
\* flush does nothing; drm::flush mode-sets the CRTC to the dumb buffer, or
\* throws when it cannot become master
FrameFlush ==
    /\ pc = "pixels"
    /\ y >= height(blit_region)
    /\ trace' = Log("flush", Len(wr))
    /\ IF dev = "drm"
       THEN \E master \in BOOLEAN :
              IF master THEN scanout' = "own" /\ pc' = "poll"
                        ELSE pc' = "fatal" /\ UNCHANGED scanout
       ELSE pc' = "poll" /\ UNCHANGED scanout
    /\ UNCHANGED <<call, ret, fbdev, drmdev>>
    /\ UNCHANGED <<dev, sw, sh, fmt, buf, view, img, is_interrupted, c,
                   count, frame, x, y, args, buf0, wr>>

\* blit(): after blit_frame, return if interrupted, sleep if another frame
\* of the pass follows, else the next iteration
BlitPoll ==
    /\ pc = "poll"
    /\ IF was_interrupted
       THEN /\ pc' = "exit"
            /\ trace' = Log("return", 0)
            /\ UNCHANGED frame
       ELSE IF sleep_wanted
            THEN /\ pc' = "sleep"
                 /\ trace' = Log("sleep", frame)
                 /\ UNCHANGED frame
            ELSE /\ pc' = "for"
                 /\ frame' = frame + 1
                 /\ UNCHANGED trace
    /\ UNCHANGED <<call, ret, fbdev, drmdev>>
    /\ UNCHANGED <<dev, sw, sh, fmt, buf, scanout, view, img, is_interrupted, c,
                   count, x, y, args, buf0, wr>>

\* blit(): usleep(img.mspt) is over, frame++
BlitSleep ==
    /\ pc = "sleep"
    /\ pc' = "for"
    /\ frame' = frame + 1
    /\ UNCHANGED <<call, ret, fbdev, drmdev>>
    /\ UNCHANGED <<dev, sw, sh, fmt, buf, scanout, view, img, is_interrupted, c,
                   count, x, y, args, buf0, wr, trace>>

\* signal_handler(): SIGINT, SIGABRT or SIGTERM arrives while the program runs
Signal ==
    /\ pc \notin {"exit", "fatal", "error", "killed"}
    /\ is_interrupted' = TRUE
    /\ trace' = IF is_interrupted THEN trace ELSE Log("signal", 0)
    /\ UNCHANGED <<call, ret, fbdev, drmdev>>
    /\ UNCHANGED <<dev, sw, sh, fmt, buf, scanout, view, img, pc, c,
                   count, frame, x, y, args, buf0, wr>>

\* the steps of the single program thread
Program ==
    \/ EntryClear \/ ClearPixel \/ ClearRow \/ ClearReturn
    \/ EntryImage \/ BlitWhile \/ BlitFor
    \/ FramePixel \/ FrameRow \/ FrameFlush
    \/ BlitPoll \/ BlitSleep

Next == Program \/ Signal

Spec == Init /\ [][Next]_vars

\* yav --image anim.gif alone: the steps of clear() are never enabled
AnimationProgram ==
    \/ EntryClear \/ EntryImage \/ BlitWhile \/ BlitFor
    \/ FramePixel \/ FrameRow \/ FrameFlush
    \/ BlitPoll \/ BlitSleep

AnimationNext == AnimationProgram \/ Signal

\* the thread is never suspended for ever (every draw and sleep terminates);
\* nothing obliges a signal to arrive
AnimationSpec ==
    InitAnimation /\ [][AnimationNext]_vars /\ WF_vars(AnimationProgram)

----------------------------------------------------------------------------
(* Library functions called on their own: the main program is not running *)

machine == <<dev, sw, sh, fmt, buf, scanout, view, img, is_interrupted, pc, c,
             count, frame, x, y, args, buf0, wr, trace>>

MachineOff ==
    /\ dev = "none" /\ sw = 0 /\ sh = 0 /\ fmt = DrmFormat
    /\ buf = <<>> /\ scanout = "orig"
    /\ view = viewport_default
    /\ img = Image(1, 1, 0, 0, FALSE, 0, 0, 0, 0, 0)
    /\ is_interrupted = FALSE
    /\ pc = "exit"
    /\ c = color_zero
    /\ count = 0 /\ frame = 0 /\ x = 0 /\ y = 0
    /\ args = [clear |-> FALSE, image |-> FALSE, color |-> <<>>,
               loop |-> [form |-> "absent", times |-> 0]]
    /\ buf0 = <<>> /\ wr = <<>> /\ trace = <<>>

----------------------------------------------------------------------------
(* format.cpp called on its own *)

\* pixel words given to decode have their bits in 0..MaxBit
MaxBit == 10

\* channels of every length 0..8 at two offsets; length 0 is an unused channel
ChannelOffsets == {0, 3}
Channels == {channel(l, o) : l \in 0..8, o \in ChannelOffsets}

\* the words of test_framebuffer_channel: 0b111111101, 0b011111101, 0b111000000111
TestWords == {Bits(509), Bits(253), Bits(3591)}
Words == (SUBSET (0..MaxBit)) \cup TestWords

\* layouts: the three of the screens, a grayscale one (all fields the same)
\* and one whose fields have different offsets and overlap
GrayFormat == format(8, channel(8, 0), channel(8, 0), channel(8, 0), channel_none)
OverlapFormat == format(16, channel(8, 0), channel(8, 4), channel(8, 8), channel_none)
Formats == {DrmFormat, Fb565Format, FbFallbackFormat, GrayFormat, OverlapFormat}

\* r, g, b triples: one component over the whole range, two over samples
RgbSamples == {0, 125, 255}
RgbInputs ==
    {<<v, s, t>> : v \in 0..255, s \in RgbSamples, t \in RgbSamples}
    \cup {<<s, v, t>> : v \in 0..255, s \in RgbSamples, t \in RgbSamples}
    \cup {<<s, t, v>> : v \in 0..255, s \in RgbSamples, t \in RgbSamples}

\* words given to decode_rgb: 0b1111101111100000 of test_framebuffer_format,
\* 0b1111101111000000, all zeros, 16 ones, 32 ones
RgbWords == {Bits(64480), Bits(64448), {}, 0..15, 0..31}

\* layouts given to color(): every choice of three channels
ColorChannels ==
    {channel_none, channel(0, 5), channel(8, 0), channel(8, 4), channel(8, 8),
     channel(5, 11), channel(4, 0), channel(4, 4)}
ColorFormats ==
    {format(32, cr, cg, cb, channel_none) :
        cr \in ColorChannels, cg \in ColorChannels, cb \in ColorChannels}

InitFormat ==
    /\ MachineOff /\ NoDevice
    /\ ret = <<>>
    /\ \/ call \in [op : {"encode"}, ch : Channels, value : 0..255]
       \/ call \in [op : {"decode"}, ch : Channels, value : Words]
       \/ \E f \in Formats, rgb \in RgbInputs :
             call = [op |-> "encode_rgb", f |-> f, r |-> rgb[1], g |-> rgb[2], b |-> rgb[3]]
       \/ call \in [op : {"decode_rgb"}, f : Formats, pixel : RgbWords]
       \/ call \in [op : {"color"}, f : ColorFormats]

\* ch.encode(value)
CallEncode ==
    /\ call.op = "encode" /\ ret = <<>>
    /\ ret' = <<encode(call.ch, call.value)>>
    /\ UNCHANGED <<call, fbdev, drmdev>>
    /\ UNCHANGED machine

\* ch.decode(value)
CallDecode ==
    /\ call.op = "decode" /\ ret = <<>>
    /\ \E o \in decode(call.ch, call.value) : ret' = <<o>>
    /\ UNCHANGED <<call, fbdev, drmdev>>
    /\ UNCHANGED machine

\* f.encode_rgb(r, g, b)
CallEncodeRgb ==
    /\ call.op = "encode_rgb" /\ ret = <<>>
    /\ ret' = <<encode_rgb(call.f, call.r, call.g, call.b)>>
    /\ UNCHANGED <<call, fbdev, drmdev>>
    /\ UNCHANGED machine

\* f.decode_rgb(pixel, &r, &g, &b)
CallDecodeRgb ==
    /\ call.op = "decode_rgb" /\ ret = <<>>
    /\ \E o \in decode_rgb(call.f, call.pixel) : ret' = <<o>>
    /\ UNCHANGED <<call, fbdev, drmdev>>
    /\ UNCHANGED machine

\* f.decode_rgb(f.encode_rgb(r, g, b), &r, &g, &b): the word just encoded is decoded
CallDecodeEncoded ==
    /\ call.op = "encode_rgb" /\ Len(ret) = 1
    /\ \E o \in decode_rgb(call.f, ret[1]) : ret' = Append(ret, o)
    /\ UNCHANGED <<call, fbdev, drmdev>>
    /\ UNCHANGED machine

\* ch.decode(ch.encode(value)): the word just encoded is decoded
CallDecodeEncodedChannel ==
    /\ call.op = "encode" /\ Len(ret) = 1
    /\ \E o \in decode(call.ch, ret[1]) : ret' = Append(ret, o)
    /\ UNCHANGED <<call, fbdev, drmdev>>
    /\ UNCHANGED machine

\* f.color()
CallColor ==
    /\ call.op = "color" /\ ret = <<>>
    /\ ret' = <<color(call.f)>>
    /\ UNCHANGED <<call, fbdev, drmdev>>
    /\ UNCHANGED machine

FormatNext ==
    \/ CallEncode \/ CallDecode \/ CallEncodeRgb \/ CallDecodeRgb
    \/ CallDecodeEncoded \/ CallDecodeEncodedChannel \/ CallColor

FormatSpec == InitFormat /\ [][FormatNext]_vars

----------------------------------------------------------------------------
(* viewport.cpp called on its own *)

\* viewports of a set size: anchors 0, 0.5, 1 and 1.5 (in halves), offsets
GeoViewports ==
    [w : {1, 2, 10}, h : {1, 10}, ax : 0..3, ay : 0..3, ox : {-1, 0, 3}, oy : {0, 2}]

\* canvases: at and off the origin, odd and even sizes, and 100x100
GeoCanvases ==
    {constraint(px, py, cw, ch) :
        px \in {-2, 0, 5}, py \in {0, 1}, cw \in {3, 4, 100}, ch \in {2, 100}}

InitGeometry ==
    /\ MachineOff /\ NoDevice
    /\ ret = <<>>
    /\ call \in [op : {"get_position", "get_constraint"},
                 v : GeoViewports, canvas : GeoCanvases]

\* v.get_position(canvas)
CallGetPosition ==
    /\ call.op = "get_position" /\ ret = <<>>
    /\ ret' = <<get_position(call.v, call.canvas)>>
    /\ UNCHANGED <<call, fbdev, drmdev>>
    /\ UNCHANGED machine

\* v.get_constraint(canvas)
CallGetConstraint ==
    /\ call.op = "get_constraint" /\ ret = <<>>
    /\ ret' = <<get_constraint(call.v, call.canvas)>>
    /\ UNCHANGED <<call, fbdev, drmdev>>
    /\ UNCHANGED machine

GeometryNext == CallGetPosition \/ CallGetConstraint

GeometrySpec == InitGeometry /\ [][GeometryNext]_vars

----------------------------------------------------------------------------
(* color.cpp called on its own *)

\* texts are a prefix, up to MaxPairs pairs of characters and a tail
MaxPairs == 4

\* nothing, "#", "0x", "0X", "##"
TextPrefixes == {<<>>, <<35>>, <<48, 120>>, <<48, 88>>, <<35, 35>>}

\* "00", "ff", "7D", "a9", "zz", "/:", "@`", "Gg": hex digits of the three
\* ranges and the characters next to the ends of the ranges
TextPairs ==
    {<<48, 48>>, <<102, 102>>, <<55, 68>>, <<97, 57>>, <<122, 122>>,
     <<47, 58>>, <<64, 96>>, <<71, 103>>}

\* nothing, "1"
TextTails == {<<>>, <<49>>}

RECURSIVE TextBodies(_)
TextBodies(n) ==
    IF n = 0 THEN {<<>>}
    ELSE {<<>>} \cup {pair \o rest : pair \in TextPairs, rest \in TextBodies(n - 1)}

Texts ==
    {pre \o body \o tail :
        pre \in TextPrefixes, body \in TextBodies(MaxPairs), tail \in TextTails}

InitColor ==
    /\ MachineOff /\ NoDevice
    /\ ret = <<>>
    /\ call \in [op : {"parse"}, text : Texts]

\* color::parse(text)
CallParse ==
    /\ call.op = "parse" /\ ret = <<>>
    /\ ret' = <<parse(call.text)>>
    /\ UNCHANGED <<call, fbdev, drmdev>>
    /\ UNCHANGED machine

ColorNext == CallParse

ColorSpec == InitColor /\ [][ColorNext]_vars

----------------------------------------------------------------------------
(* framebuffer.cpp: framebuffer_screen constructed and destroyed on its own *)

\* the candidates in the order of the constructor's three blocks: the
\* user-provided path, FB_DEV_1, FB_DEV_2
FbCandidates == <<"path", "/dev/fb0", "/dev/fb/0">>

\* open(2) returns the lowest descriptor the process does not use
lowest_free(used) ==
    CHOOSE n \in 0..Cardinality(used) :
        n \notin used /\ \A m \in 0..(n - 1) : m \in used

\* int fh = open(candidate, O_RDWR): a descriptor, or -1
fb_open(d, candidate) == IF candidate \in d.nodes THEN lowest_free(d.used) ELSE -1

\* one block of the constructor: open; if (fh > 0) { init(fh); return; }
\* LOG_WARN and on to the next block, or to the throw after the last
fb_try(d, candidate, next) ==
    Only({[d EXCEPT !.opens = Append(@, [dev |-> candidate, fh |-> fh]),
                    !.used = IF fh >= 0 THEN @ \cup {fh} ELSE @,
                    !.handle = IF fh > 0 THEN fh ELSE @,
                    !.what = IF fh > 0 \/ next # "failed" THEN @
                             ELSE "out of ideas, unable to open any framebuffer",
                    !.at = IF fh > 0 THEN "init" ELSE next]
          : fh \in {fb_open(d, candidate)}})

\* fb_var_screeninfo, as far as the constructor reads it: grayscale and the
\* bits_per_pixel, red, green, blue and transp fields (a format)
screeninfo(grayscale, f) == [grayscale |-> grayscale, fmt |-> f]

\* framebuffer::info info; / info.var = {}
info_none ==
    screeninfo(0, format(0, channel_none, channel_none, channel_none, channel_none))

\* framebuffer::info::has_fourcc
has_fourcc(info) == info.grayscale > 1

\* framebuffer::info::get_format
get_format(info) == info.fmt

\* framebuffer::info::has_color
has_color(info) == info.grayscale = 0 /\ color(get_format(info))

\* framebuffer::info::set_format: the five layout fields, grayscale is kept
set_format(info, f) == [info EXCEPT !.fmt = f]

\* the states a framebuffer device can be in: colour, grayscale (1) or FOURCC
\* (more than 1), with a 565, a 32-bit or a one-field layout
DeviceVars ==
    {screeninfo(g, f) : g \in {0, 1, 2}, f \in {Fb565Format, FbFallbackFormat, GrayFormat}}

\* ioctl(m_handle, FBIOPUT_VSCREENINFO, info.var): the structure is passed by
\* value where the request takes its address.  What arrives as the address
\* depends on the calling convention: where a large structure is passed as
\* a pointer to a copy the device reads the structure, elsewhere it reads
\* through whatever the argument register holds
put_delivered(info) ==
    {[valid |-> TRUE, var |-> info], [valid |-> FALSE, var |-> info_none]}

\* the device's answers to FBIOPUT_VSCREENINFO: it refuses and keeps its
\* state, or it settles in one of its states
put_answers(var) == {[ok |-> FALSE, var |-> var]} \cup {[ok |-> TRUE, var |-> v] : v \in DeviceVars}

\* framebuffer::load: the message of the exception, "" when both ioctls succeed
load_what(var_ok, fix_ok) ==
    IF ~var_ok THEN "failed to load variable frame buffer info"
    ELSE IF ~fix_ok THEN "failed to load fixed frame buffer info"
    ELSE ""

\* framebuffer::init: catch (const std::exception& e) { throw
\* std::runtime_error{"framebuffer init failed: " + std::string(e.what())}; }
init_what(what) ==
    IF what = "failed to load variable frame buffer info"
    THEN "framebuffer init failed: failed to load variable frame buffer info"
    ELSE "framebuffer init failed: failed to load fixed frame buffer info"

\* ~framebuffer: munmap(m_buffer, ...), close(m_handle): the descriptor is
\* free again
fb_destroy(d) ==
    [d EXCEPT !.used = @ \ {d.handle}, !.log = @ \o <<"munmap", "close">>]

\* the process before the constructor runs: whether --dev fb:<path> names a
\* path, whether -v is among the arguments, which device nodes can be opened,
\* which of the descriptors 0, 1 and 2 the process was started with, and the
\* state of the device
InitFb ==
    /\ MachineOff /\ NoCall /\ NoDrm
    /\ \E path \in BOOLEAN, verbose \in BOOLEAN,
          nodes \in SUBSET {"path", "/dev/fb0", "/dev/fb/0"},
          used \in SUBSET {0, 1, 2}, var \in DeviceVars :
          /\ (~path) => "path" \notin nodes
          /\ fbdev = [at |-> "path", path |-> path, nodes |-> nodes, used |-> used,
                       verbose |-> verbose, dumped |-> FALSE,
                       opens |-> <<>>, handle |-> -1, what |-> "",
                       var |-> var, info |-> info_none, first |-> info_none,
                       asked |-> <<>>, put |-> <<>>, log |-> <<>>]

\* if (path != nullptr) { ... }
FbOpenPath ==
    /\ fbdev.at = "path"
    /\ fbdev' = IF fbdev.path THEN fb_try(fbdev, "path", "/dev/fb0")
                 ELSE [fbdev EXCEPT !.at = "/dev/fb0"]
    /\ UNCHANGED <<call, ret, drmdev>>
    /\ UNCHANGED machine

\* if (FB_DEV_1) { ... }
FbOpenDev1 ==
    /\ fbdev.at = "/dev/fb0"
    /\ fbdev' = fb_try(fbdev, "/dev/fb0", "/dev/fb/0")
    /\ UNCHANGED <<call, ret, drmdev>>
    /\ UNCHANGED machine

\* if (FB_DEV_2) { ... } throw std::runtime_error("out of ideas, ...")
FbOpenDev2 ==
    /\ fbdev.at = "/dev/fb/0"
    /\ fbdev' = fb_try(fbdev, "/dev/fb/0", "failed")
    /\ UNCHANGED <<call, ret, drmdev>>
    /\ UNCHANGED machine

\* framebuffer::init(fh): load(m_info) throws when one of its two ioctls
\* fails, and init rethrows out of the constructor of framebuffer: the
\* object was never constructed and its destructor does not run.  Otherwise
\* the buffer is mapped and the constructor of framebuffer_screen goes on
FbInit ==
    /\ fbdev.at = "init"
    /\ \E var_ok \in BOOLEAN, fix_ok \in BOOLEAN :
          fbdev' = IF load_what(var_ok, fix_ok) = ""
                   THEN [fbdev EXCEPT !.at = "query", !.log = @ \o <<"load", "mmap">>]
                   ELSE [fbdev EXCEPT !.at = "failed",
                                      !.log = Append(@, "load"),
                                      !.what = init_what(load_what(var_ok, fix_ok))]
    /\ UNCHANGED <<call, ret, drmdev>>
    /\ UNCHANGED machine

\* framebuffer::info info; fb->load(info);  An exception leaves the
\* constructor of framebuffer_screen and destroys the member fb
FbQuery ==
    /\ fbdev.at = "query"
    /\ \E var_ok \in BOOLEAN, fix_ok \in BOOLEAN :
          fbdev' = IF load_what(var_ok, fix_ok) = ""
                   THEN [fbdev EXCEPT !.at = "request", !.log = Append(@, "load"),
                                      !.info = fbdev.var, !.first = fbdev.var]
                   ELSE fb_destroy([fbdev EXCEPT !.at = "failed",
                                                 !.log = Append(@, "load"),
                                                 !.what = load_what(var_ok, fix_ok)])
    /\ UNCHANGED <<call, ret, drmdev>>
    /\ UNCHANGED machine

\* if (!info.has_color() || info.has_fourcc()) { info.set_format(fmt);
\* try { fb->store(info); } catch (...) { LOG_ERROR } }: store throws when
\* the ioctl fails and then loads m_info, and whatever it throws is only logged
FbRequest ==
    /\ fbdev.at = "request"
    /\ IF ~has_color(fbdev.info) \/ has_fourcc(fbdev.info)
       THEN \E wanted \in {set_format(fbdev.info, FbFallbackFormat)} :
            \E delivered \in put_delivered(wanted), answer \in put_answers(fbdev.var) :
                fbdev' = [fbdev EXCEPT !.at = "requery",
                                       !.info = wanted,
                                       !.asked = Append(@, wanted),
                                       !.put = Append(@, delivered),
                                       !.var = answer.var,
                                       !.log = IF answer.ok THEN @ \o <<"store", "load">>
                                               ELSE Append(@, "store")]
       ELSE fbdev' = [fbdev EXCEPT !.at = "requery"]
    /\ UNCHANGED <<call, ret, drmdev>>
    /\ UNCHANGED machine

\* fb->load(info); if (!info.has_color()) throw "Failed to enable color support!"
FbRequery ==
    /\ fbdev.at = "requery"
    /\ \E var_ok \in BOOLEAN, fix_ok \in BOOLEAN :
          fbdev' = IF load_what(var_ok, fix_ok) # ""
                   THEN fb_destroy([fbdev EXCEPT !.at = "failed",
                                                 !.log = Append(@, "load"),
                                                 !.info = info_none,
                                                 !.what = load_what(var_ok, fix_ok)])
                   ELSE IF has_color(fbdev.var)
                   THEN [fbdev EXCEPT !.at = "ready", !.log = Append(@, "load"),
                                      !.info = fbdev.var]
                   ELSE fb_destroy([fbdev EXCEPT !.at = "failed",
                                                 !.log = Append(@, "load"),
                                                 !.info = fbdev.var,
                                                 !.what = "Failed to enable color support!"])
    /\ UNCHANGED <<call, ret, drmdev>>
    /\ UNCHANGED machine

\* if (get_flag("-v") != args.end()) { screen->dump(); }
\* framebuffer_screen::dump: framebuffer::info info; fb->load(info);
\* info.dump();  The exception of load leaves entry(), and the unique_ptr
\* destroys the screen and its framebuffer
FbDump ==
    /\ fbdev.at = "ready" /\ fbdev.verbose /\ ~fbdev.dumped
    /\ \E var_ok \in BOOLEAN, fix_ok \in BOOLEAN :
          fbdev' = IF load_what(var_ok, fix_ok) = ""
                   THEN [fbdev EXCEPT !.dumped = TRUE, !.log = Append(@, "load")]
                   ELSE fb_destroy([fbdev EXCEPT !.at = "destroyed",
                                                 !.dumped = TRUE,
                                                 !.log = Append(@, "load"),
                                                 !.what = load_what(var_ok, fix_ok)])
    /\ UNCHANGED <<call, ret, drmdev>>
    /\ UNCHANGED machine

\* entry() returns, after the dump that -v asks for: the unique_ptr destroys
\* the screen and its framebuffer
FbDestroy ==
    /\ fbdev.at = "ready" /\ (fbdev.verbose => fbdev.dumped)
    /\ fbdev' = fb_destroy([fbdev EXCEPT !.at = "destroyed"])
    /\ UNCHANGED <<call, ret, drmdev>>
    /\ UNCHANGED machine

FbNext ==
    \/ FbOpenPath \/ FbOpenDev1 \/ FbOpenDev2 \/ FbInit
    \/ FbQuery \/ FbRequest \/ FbRequery \/ FbDump \/ FbDestroy

FbSpec == InitFb /\ [][FbNext]_vars

----------------------------------------------------------------------------
(* drm.cpp: pick_connector and pick_mode called on their own *)

\* the most connectors of a device and the most modes of a connector
MaxConnectors == 3
MaxModes == 3

\* drmModeModeInfo, as far as pick_mode reads it
drm_mode(preferred, hdisplay, vdisplay) ==
    [preferred |-> preferred, hdisplay |-> hdisplay, vdisplay |-> vdisplay]

\* drmModeConnector, as far as pick_connector reads it; present is FALSE when
\* drmModeGetConnectorCurrent returns nullptr for the id.  connection is one of
\* DRM_MODE_CONNECTED, DRM_MODE_DISCONNECTED, DRM_MODE_UNKNOWNCONNECTION
drm_connector(present, connection, modes) ==
    [present |-> present, connection |-> connection, modes |-> modes]

\* drm::pick_connector: the loop from index i (1-based); the index of the
\* connector returned, or the exception
RECURSIVE pick_connector_from(_, _)
pick_connector_from(resource, i) ==
    IF i > Len(resource) THEN thrown(0)
    ELSE IF ~resource[i].present THEN pick_connector_from(resource, i + 1)
    ELSE IF Len(resource[i].modes) = 0 THEN pick_connector_from(resource, i + 1)
    ELSE IF resource[i].connection = "disconnected" THEN pick_connector_from(resource, i + 1)
    ELSE returned(i)

pick_connector(resource) == pick_connector_from(resource, 1)

\* drm::pick_mode: the loop from index i (1-based) with its locals pixels and
\* selected (0 for nullptr); the index of the mode returned, or the exception
RECURSIVE pick_mode_from(_, _, _, _)
pick_mode_from(modes, i, pixels, selected) ==
    IF i > Len(modes)
    THEN IF selected = 0 THEN thrown(0) ELSE returned(selected)
    ELSE IF modes[i].preferred THEN returned(i)
    ELSE IF modes[i].vdisplay * modes[i].hdisplay > pixels
    THEN pick_mode_from(modes, i + 1, modes[i].vdisplay * modes[i].hdisplay, i)
    ELSE pick_mode_from(modes, i + 1, pixels, selected)

pick_mode_first(connector) ==
    IF Len(connector.modes) = 0 THEN thrown(0) ELSE returned(1)
pick_mode(connector) == pick_mode_from(connector.modes, 1, 0, 0)

\* sequences of at most n elements of S
SeqUpTo(S, n) == UNION {[1..k -> S] : k \in 0..n}

\* modes of 1 or 2 pixels a side: areas 1, 2, 2 and 4
DrmModes == {drm_mode(p, h, v) : p \in BOOLEAN, h \in {1, 2}, v \in {1, 2}}

\* the connectors given to pick_mode
ModeConnectors ==
    {drm_connector(TRUE, "connected", modes) : modes \in SeqUpTo(DrmModes, MaxModes)}

\* the connectors behind the ids of a resource: absent or present, in each
\* connection state, without or with a mode
ResourceConnectors ==
    {drm_connector(p, st, modes) :
        p \in BOOLEAN, st \in {"connected", "disconnected", "unknown"},
        modes \in {<<>>, <<drm_mode(FALSE, 2, 1)>>}}

Resources == SeqUpTo(ResourceConnectors, MaxConnectors)

InitPick ==
    /\ MachineOff /\ NoDevice
    /\ ret = <<>>
    /\ \/ call \in [op : {"pick_connector"}, resource : Resources]
       \/ call \in [op : {"pick_mode"}, connector : ModeConnectors]

\* drm::pick_connector(fd, resource)
CallPickConnector ==
    /\ call.op = "pick_connector" /\ ret = <<>>
    /\ ret' = <<pick_connector(call.resource)>>
    /\ UNCHANGED <<call, fbdev, drmdev>>
    /\ UNCHANGED machine

\* drm::pick_mode(connector)
CallPickMode ==
    /\ call.op = "pick_mode" /\ ret = <<>>
    /\ ret' = <<pick_mode(call.connector)>>
    /\ UNCHANGED <<call, fbdev, drmdev>>
    /\ UNCHANGED machine

PickNext == CallPickConnector \/ CallPickMode

PickSpec == InitPick /\ [][PickNext]_vars

----------------------------------------------------------------------------
(* drm.cpp: a drm object constructed, flushed and destroyed on its own *)

\* the most calls of flush() followed
MaxFlushes == 2

\* a call made on the device: who made it (the constructor's init, flush or
\* the destructor), the library or system call, and what tells two calls apart
DrmCall(by, name, arg) == [by |-> by, call |-> name, arg |-> arg]

\* the steps of drm::init in order: the exception a step throws when it
\* fails (a failing ioctl or drmModeAddFB answers -1), the exception that
\* leaves init ("DMA init failed: " + e.what()), the device calls the step
\* makes whether it fails or not, and the resource the object holds once the
\* step succeeded.  pick_connector asks for one connector after the other
\* (init_calls); get_crtc frees the encoder before it looks at the CRTC
InitSteps ==
    <<[step |-> "get_resource", calls |-> <<"drmModeGetResources">>, holds |-> "",
       what |-> "Unable to get DRM resources!",
       rethrown |-> "DMA init failed: Unable to get DRM resources!"],
      [step |-> "pick_connector", calls |-> <<>>, holds |-> "conn",
       what |-> "No valid connection found!",
       rethrown |-> "DMA init failed: No valid connection found!"],
      [step |-> "pick_mode", calls |-> <<>>, holds |-> "",
       what |-> "No valid mode found for connection!",
       rethrown |-> "DMA init failed: No valid mode found for connection!"],
      [step |-> "get_crtc", calls |-> <<"drmModeGetEncoder">>, holds |-> "",
       what |-> "Unable to get encoder!",
       rethrown |-> "DMA init failed: Unable to get encoder!"],
      [step |-> "get_crtc", calls |-> <<"drmModeGetCrtc", "drmModeFreeEncoder">>,
       holds |-> "crtc",
       what |-> "Unable to get CRTC!",
       rethrown |-> "DMA init failed: Unable to get CRTC!"],
      [step |-> "create_framebuffer", calls |-> <<"DRM_IOCTL_MODE_CREATE_DUMB">>,
       holds |-> "dumb",
       what |-> "Unable to create dumb framebuffer (err: -1)!",
       rethrown |-> "DMA init failed: Unable to create dumb framebuffer (err: -1)!"],
      [step |-> "create_framebuffer", calls |-> <<"drmModeAddFB">>, holds |-> "fb",
       what |-> "Unable to add framebuffer (err: -1)!",
       rethrown |-> "DMA init failed: Unable to add framebuffer (err: -1)!"],
      [step |-> "map", calls |-> <<"DRM_IOCTL_MODE_MAP_DUMB">>, holds |-> "",
       what |-> "Unable to mode-map dumb framebuffer (err: -1)!",
       rethrown |-> "DMA init failed: Unable to mode-map dumb framebuffer (err: -1)!"],
      [step |-> "map", calls |-> <<"mmap">>, holds |-> "",
       what |-> "Unable to memory-map dumb framebuffer!",
       rethrown |-> "DMA init failed: Unable to memory-map dumb framebuffer!"]>>

\* resource->connectors[i], as the log of calls names it
connector_id(i) == <<"1", "2", "3", "4">>[i]

\* the device calls of step j of init: pick_connector calls
\* drmModeGetConnectorCurrent for every connector up to the one it returns
init_calls(d, j) ==
    IF InitSteps[j].step = "pick_connector"
    THEN Only({[i \in 1..(IF conn.signal = "" THEN conn.value ELSE Len(d.resource)) |->
                    DrmCall("init", "drmModeGetConnectorCurrent", connector_id(i))]
               : conn \in {pick_connector(d.resource)}})
    ELSE [i \in 1..Len(InitSteps[j].calls) |-> DrmCall("init", InitSteps[j].calls[i], "")]

\* the device calls of the steps j..k of init
RECURSIVE init_log(_, _, _)
init_log(d, j, k) == IF j > k THEN <<>> ELSE init_calls(d, j) \o init_log(d, j + 1, k)

\* whether each step of init succeeds, given the answers of the device.  mmap
\* reports failure with MAP_FAILED, which is not the nullptr map() tests for
init_ok(d, answers) ==
    Only({<<answers.resource,
            conn.signal = "",
            conn.signal = "" /\ pick_mode(d.resource[conn.value]).signal = "",
            answers.encoder, answers.crtc, answers.create, answers.addfb,
            answers.mapdumb, TRUE>> : conn \in {pick_connector(d.resource)}})

\* the first step of init that fails, Len(InitSteps) + 1 when none does
first_failure(ok) ==
    CHOOSE k \in 1..(Len(ok) + 1) :
        /\ (k <= Len(ok)) => ~ok[k]
        /\ \A j \in 1..(k - 1) : ok[j]

\* drm::init(fd): the steps up to the first that fails, whose exception init
\* rethrows
drm_init(d, answers) ==
    Only({[d EXCEPT
             !.at = IF k > Len(InitSteps) THEN "ready" ELSE "failed",
             !.what = IF k > Len(InitSteps) THEN "" ELSE InitSteps[k].rethrown,
             !.conn = IF k > 2 THEN pick_connector(d.resource).value ELSE 0,
             !.mode = IF k > 3 THEN pick_mode(d.resource[pick_connector(d.resource).value]).value
                      ELSE 0,
             !.buffer = IF k <= Len(InitSteps) THEN ""
                        ELSE IF answers.mmap THEN "mapped" ELSE "MAP_FAILED",
             !.held = @ \cup ({InitSteps[j].holds : j \in 1..(k - 1)} \ {""})
                        \cup (IF k > Len(InitSteps) /\ answers.mmap THEN {"map"} ELSE {}),
             !.log = @ \o init_log(d, 1, Min2(k, Len(InitSteps)))]
          : k \in {first_failure(init_ok(d, answers))}})

\* int fh = open(candidate, O_RDWR): a descriptor, or -1
drm_open(d, candidate) == IF candidate \in d.nodes THEN lowest_free(d.used) ELSE -1

\* one block of the constructor: open; if (fh > 0) { init(fh); return; }
\* LOG_WARN and on to the next block, or to the throw after the last
drm_try(d, candidate, next) ==
    Only({[d EXCEPT !.used = IF fh >= 0 THEN @ \cup {fh} ELSE @,
                    !.fd = IF fh > 0 THEN fh ELSE @,
                    !.held = IF fh > 0 THEN @ \cup {"fd"} ELSE @,
                    !.log = Append(@, DrmCall("drm", "open", candidate)),
                    !.what = IF fh > 0 \/ next # "failed" THEN @
                             ELSE "out of ideas, unable to open any framebuffer",
                    !.at = IF fh > 0 THEN "init" ELSE next]
          : fh \in {drm_open(d, candidate)}})

\* the devices the object is constructed on: no connector, one that is
\* skipped, and connectors with one or two modes in each accepted state
DrmResources ==
    {<<>>,
     <<drm_connector(TRUE, "disconnected", <<drm_mode(FALSE, 2, 1)>>)>>,
     <<drm_connector(TRUE, "connected", <<>>),
       drm_connector(TRUE, "connected", <<drm_mode(FALSE, 1, 1), drm_mode(FALSE, 2, 2)>>)>>,
     <<drm_connector(FALSE, "connected", <<drm_mode(FALSE, 2, 1)>>),
       drm_connector(TRUE, "unknown", <<drm_mode(FALSE, 2, 1), drm_mode(TRUE, 1, 1)>>)>>}

\* the process before the constructor runs: whether --dev drm:<path> names a
\* path, which device nodes can be opened, which of the descriptors 0, 1 and
\* 2 the process was started with, and the connectors of the device.  The
\* members of the object are not initialised before init assigns them
InitDrm ==
    /\ MachineOff /\ NoCall /\ NoFb
    /\ \E path \in BOOLEAN, nodes \in SUBSET {"path", "/dev/dri/card0"},
          used \in {{0, 1, 2}, {1, 2}}, resource \in DrmResources :
          /\ (~path) => "path" \notin nodes
          /\ drmdev = [at |-> "path", path |-> path, nodes |-> nodes, used |-> used,
                        resource |-> resource, fd |-> -1, conn |-> 0, mode |-> 0,
                        buffer |-> "", held |-> {}, released |-> <<>>,
                        master |-> FALSE, scanout |-> "orig", flushes |-> 0,
                        log |-> <<>>, what |-> ""]

\* if (path != nullptr) { ... }
DrmOpenPath ==
    /\ drmdev.at = "path"
    /\ drmdev' = IF drmdev.path THEN drm_try(drmdev, "path", "/dev/dri/card0")
                  ELSE [drmdev EXCEPT !.at = "/dev/dri/card0"]
    /\ UNCHANGED <<call, ret, fbdev>>
    /\ UNCHANGED machine

\* if (DRM_DEV_1) { ... } throw std::runtime_error("out of ideas, ...")
DrmOpenDev1 ==
    /\ drmdev.at = "/dev/dri/card0"
    /\ drmdev' = drm_try(drmdev, "/dev/dri/card0", "failed")
    /\ UNCHANGED <<call, ret, fbdev>>
    /\ UNCHANGED machine

\* init(fh) inside the constructor: an exception leaves the constructor, the
\* object was never constructed and its destructor does not run
DrmInit ==
    /\ drmdev.at = "init"
    /\ \E answers \in [resource : BOOLEAN, encoder : BOOLEAN, crtc : BOOLEAN,
                       create : BOOLEAN, addfb : BOOLEAN, mapdumb : BOOLEAN,
                       mmap : BOOLEAN] :
          drmdev' = drm_init(drmdev, answers)
    /\ UNCHANGED <<call, ret, fbdev>>
    /\ UNCHANGED machine

\* drm::flush, called by blit_frame through drm_screen::flush.  drmSetMaster
\* is refused while another process is master.  The exception leaves entry()
DrmFlush_keeps_master ==
    /\ drmdev.at = "ready" /\ drmdev.flushes < MaxFlushes
    /\ \E granted \in BOOLEAN :
          drmdev' = IF granted
                    THEN [drmdev EXCEPT
                            !.flushes = @ + 1, !.master = TRUE, !.scanout = "own",
                            !.log = @ \o <<DrmCall("flush", "drmSetMaster", "granted"),
                                           DrmCall("flush", "drmModeSetCrtc", "own")>>]
                    ELSE [drmdev EXCEPT
                            !.flushes = @ + 1, !.at = "thrown",
                            !.what = "Unable to acquire master access!",
                            !.log = Append(@, DrmCall("flush", "drmSetMaster", "refused"))]
    /\ UNCHANGED <<call, ret, fbdev>>
    /\ UNCHANGED machine
DrmFlush ==
    /\ drmdev.at = "ready" /\ drmdev.flushes < MaxFlushes
    /\ \E granted \in BOOLEAN :
          drmdev' = IF granted
                    THEN [drmdev EXCEPT
                            !.flushes = @ + 1, !.master = FALSE, !.scanout = "own",
                            !.log = @ \o <<DrmCall("flush", "drmSetMaster", "granted"),
                                           DrmCall("flush", "drmModeSetCrtc", "own"),
                                           DrmCall("flush", "drmDropMaster", "")>>]
                    ELSE [drmdev EXCEPT
                            !.flushes = @ + 1, !.at = "thrown",
                            !.what = "Unable to acquire master access!",
                            !.log = Append(@, DrmCall("flush", "drmSetMaster", "refused"))]
    /\ UNCHANGED <<call, ret, fbdev>>
    /\ UNCHANGED machine

\* drm::~drm, when entry() returns or an exception leaves it.  crtc, id, conn,
\* dumb.handle and buffer are all set in an object that was constructed.
\*  - drmSetMaster's result is not looked at; the mode-set takes effect only
\*    for the master;
\*  - drmModeGetFB allocates a description of the framebuffer and
\*    drmModeFreeFB frees that description: the id stays registered;
\*  - DRM_IOCTL_MODE_DESTROY_DUMB takes the address of a drm_mode_destroy_dumb
\*    and is given the value of the handle: the ioctl fails;
\*  - close frees the descriptor and releases what it still holds
DrmDestroy ==
    /\ drmdev.at \in {"ready", "thrown"}
    /\ \E granted \in BOOLEAN :
          drmdev' = [drmdev EXCEPT
              !.at = "destroyed",
              !.used = @ \ {drmdev.fd},
              !.master = FALSE,
              !.scanout = IF granted THEN "orig" ELSE @,
              !.held = {},
              !.released = @ \o <<{"crtc"}, {"conn"}>>
                             \o (IF drmdev.buffer = "mapped" THEN <<{"map"}>> ELSE <<>>)
                             \o <<{"fd", "fb", "dumb"}>>,
              !.log = @ \o <<DrmCall("~drm", "drmSetMaster",
                                     IF granted THEN "granted" ELSE "refused"),
                             DrmCall("~drm", "drmModeSetCrtc", "orig"),
                             DrmCall("~drm", "drmModeFreeCrtc", ""),
                             DrmCall("~drm", "drmModeGetFB", "own"),
                             DrmCall("~drm", "drmModeFreeFB", ""),
                             DrmCall("~drm", "drmModeFreeConnector", ""),
                             DrmCall("~drm", "DRM_IOCTL_MODE_DESTROY_DUMB", "handle by value"),
                             DrmCall("~drm", "munmap", drmdev.buffer),
                             DrmCall("~drm", "close", "")>>]
    /\ UNCHANGED <<call, ret, fbdev>>
    /\ UNCHANGED machine

DrmNext == DrmOpenPath \/ DrmOpenDev1 \/ DrmInit \/ DrmFlush \/ DrmDestroy

DrmSpec == InitDrm /\ [][DrmNext]_vars

----------------------------------------------------------------------------
(* Vocabulary of the properties *)

\* the surface pixels, and the pixel a buffer byte (1-based index k) belongs to
Pixels == (0..(sw - 1)) \X (0..(sh - 1))
PixelOfByte(k) == <<((k - 1) \div pixel_bytes(fmt)) % sw, ((k - 1) \div pixel_bytes(fmt)) \div sw>>
BytesOfPixel(p) == {k \in DOMAIN buf : PixelOfByte(k) = p}

\* point-in-rectangle, by coordinates
Inside(box, p) ==
    /\ box.min.x <= p[1] /\ p[1] < box.max.x
    /\ box.min.y <= p[2] /\ p[2] < box.max.y

\* surface /\ viewport /\ placed image, pixel by pixel
BlitTarget == {p \in Pixels : Inside(scrc, p) /\ Inside(viewc, p) /\ Inside(imgc, p)}

\* surface /\ viewport, pixel by pixel
ClearTarget == {p \in Pixels : Inside(scrc, p) /\ Inside(viewc, p)}

\* the alpha byte of the image pixel that lands on surface pixel p
SourceAlpha(p) ==
    img.data[frame + 1][4 * ((p[1] - imgc.min.x) + (p[2] - imgc.min.y) * img.w) + 4]

\* the running or just completed blit_frame call
InFrame == pc \in {"pixels", "poll", "sleep"}
FrameDone == pc \in {"poll", "sleep"}

\* positions of the events of one kind in the history
At(e) == {i \in 1..Len(trace) : trace[i].ev = e}
Complete == Len(trace) < TraceCap

----------------------------------------------------------------------------
(* C1: blit_frame changes no byte of a surface pixel outside surface /\      *)
(* viewport /\ image, every write it makes is a whole in-bounds pixel of    *)
(* that intersection, and it writes nothing when the intersection is empty. *)
C1_BlitStaysInRegion ==
    InFrame =>
        /\ \A k \in DOMAIN buf : PixelOfByte(k) \notin BlitTarget => buf[k] = buf0[k]
        /\ \A i \in 1..Len(wr) :
              /\ wr[i] >= 0 /\ wr[i] + pixel_bytes(fmt) <= Len(buf)
              /\ wr[i] % pixel_bytes(fmt) = 0
              /\ PixelOfByte(wr[i] + 1) \in BlitTarget
        /\ (BlitTarget = {} => wr = <<>> /\ buf = buf0)
        /\ ((width(blit_region) <= 0 \/ height(blit_region) <= 0) => wr = <<>>)

\* a frame drawn through a configured viewport that clips it
C1_Witness ==
    /\ FrameDone
    /\ view # viewport_default
    /\ wr # <<>> /\ buf # buf0
    /\ Len(wr) < img.w * img.h

\* an image placed entirely off the canvas: the frame ends with no write
C1_WitnessEmpty ==
    /\ FrameDone
    /\ BlitTarget = {}
    /\ wr = <<>>

----------------------------------------------------------------------------
(* C2: a source pixel with alpha 0 leaves the bytes of its destination      *)
(* pixel as they were when blit_frame began, with and without blending.     *)
C2_TransparentUntouched ==
    InFrame =>
        \A p \in BlitTarget :
            SourceAlpha(p) = 0 => \A k \in BytesOfPixel(p) : buf[k] = buf0[k]

\* a blended frame that wrote some pixels and skipped a transparent one
C2_Witness ==
    /\ FrameDone
    /\ img.blend
    /\ wr # <<>>
    /\ \E p \in BlitTarget : SourceAlpha(p) = 0

----------------------------------------------------------------------------
(* Vocabulary of the animation properties *)

IsDraw(e) == e.ev = "draw"
IsSleep(e) == e.ev = "sleep"
IsDrawOrSleep(e) == e.ev \in {"draw", "sleep"}

\* the frame indices handed to blit_frame, in call order
Drawn == LET d == SelectSeq(trace, IsDraw) IN [i \in 1..Len(d) |-> d[i].n]

\* the number of inter-frame sleeps started
Sleeps == Len(SelectSeq(trace, IsSleep))

\* a sleep was started between draw number k (from 1) and the next draw
SleepAfterDraw(k) ==
    LET ds == SelectSeq(trace, IsDrawOrSleep)
    IN  \E i \in 1..(Len(ds) - 1) :
           /\ ds[i].ev = "draw"
           /\ Cardinality({j \in 1..i : ds[j].ev = "draw"}) = k
           /\ ds[i + 1].ev = "sleep"

\* blit() was called and returned normally without the flag ever being set
Uncancelled == args.image /\ At("blit") # {} /\ ~is_interrupted
Returned == Uncancelled /\ pc = "exit" /\ Complete

\* the program is inside blit()
InBlit == pc \in {"while", "for", "pixels", "poll", "sleep"}

----------------------------------------------------------------------------
(* C3, as stated: loops = 2 and frame_count = 3, never cancelled: exactly 6 *)
(* frame draws and exactly 5 sleeps, none after draw 3 or draw 6.           *)
C3_SixDrawsFiveSleeps ==
    (Returned /\ img.loops = 2 /\ img.frames = 3) =>
        /\ Len(Drawn) = 6
        /\ Sleeps = 5
        /\ ~SleepAfterDraw(3) /\ ~SleepAfterDraw(6)

(* C3, amended: loops = 2 and frame_count = 3, never cancelled: exactly 6   *)
(* frame draws and exactly 4 sleeps, one after each of the draws 1, 2, 4    *)
(* and 5, none after draw 3 or draw 6.                                      *)
C3_SixDrawsFourSleeps ==
    (Returned /\ img.loops = 2 /\ img.frames = 3) =>
        /\ Len(Drawn) = 6
        /\ Sleeps = 4
        /\ \A k \in {1, 2, 4, 5} : SleepAfterDraw(k)
        /\ ~SleepAfterDraw(3) /\ ~SleepAfterDraw(6)

\* blit() of a 3-frame image with loops = 2 has returned, never cancelled
C3_Witness ==
    /\ Returned /\ img.loops = 2 /\ img.frames = 3
    /\ Drawn = <<0, 1, 2, 0, 1, 2>>

----------------------------------------------------------------------------
(* C4: when the flag is set while a frame is being drawn (after blit_frame  *)
(* was entered and before its flush), no further blit_frame and no sleep is *)
(* started, and blit() has returned only after that frame's flush.          *)
SignalDuringDraw(i) ==
    /\ trace[i].ev = "signal"
    /\ \E j \in 1..(i - 1) :
          /\ trace[j].ev = "draw"
          /\ \A k \in (j + 1)..(i - 1) : trace[k].ev \notin {"draw", "flush"}

C4_CancelAfterFrame ==
    \A i \in 1..Len(trace) :
        SignalDuringDraw(i) =>
            /\ \A k \in (i + 1)..Len(trace) : trace[k].ev \notin {"draw", "sleep"}
            /\ Cardinality({k \in (i + 1)..Len(trace) : trace[k].ev = "flush"}) <= 1
            /\ (pc = "exit" /\ Complete) =>
                  /\ trace[Len(trace)].ev = "return"
                  /\ trace[Len(trace) - 1].ev = "flush"
                  /\ Len(trace) - 1 > i

\* cancelled during the first frame of an animation with more to draw
C4_Witness ==
    /\ pc = "exit" /\ Complete
    /\ img.frames = 3 /\ img.loops = 2
    /\ Drawn = <<0>>
    /\ \E i \in 1..Len(trace) : SignalDuringDraw(i)

----------------------------------------------------------------------------
(* C5: never cancelled, frame_count = F >= 1.  loops = N >= 0: blit()       *)
(* returns, having drawn exactly N passes of the frames 0..F-1 in order.    *)
(* loops < 0: blit() never returns, its counter keeps its value, and it     *)
(* draws the frames 0..F-1 cyclically for ever.                             *)
C5_Passes ==
    (Uncancelled /\ img.frames >= 1) =>
        /\ \A i \in 1..Len(Drawn) : Drawn[i] = (i - 1) % img.frames
        /\ (pc = "exit" /\ Complete) => Len(Drawn) = img.loops * img.frames
        /\ (img.loops < 0) => pc # "exit" /\ (InBlit => count = img.loops)
        /\ (img.loops >= 0 /\ InBlit) => count <= img.loops /\ count >= 0

\* a flush that cannot become DRM master ends the program with an error
Failed == pc = "fatal"

\* the process was killed while entry() parsed its arguments, before blit()
Killed == pc = "killed"

C5_FiniteReturns ==
    <>(is_interrupted \/ Failed \/ Killed \/ pc = "exit"
         \/ (args.image /\ img.loops < 0))

C5_InfiniteDraws ==
    []<>(is_interrupted \/ Failed \/ pc = "pixels"
          \/ ~(args.image /\ img.loops < 0 /\ img.frames >= 1))

C5_LoopCount == []C5_Passes /\ C5_FiniteReturns /\ C5_InfiniteDraws

\* two full passes of a 2-frame image have been drawn and blit() returned
C5_Witness ==
    /\ Returned
    /\ img.loops = 2 /\ img.frames = 2
    /\ Drawn = <<0, 1, 0, 1>>

\* an endless animation in its third pass
C5_WitnessEndless ==
    /\ Uncancelled /\ img.loops < 0 /\ img.frames = 2
    /\ Len(Drawn) = 5 /\ count = -1

----------------------------------------------------------------------------
(* C6: every blit_frame call invokes flush() exactly once, after its last   *)
(* pixel write: none while the pixel loops run, one by the time the call    *)
(* is over, also when the region is empty.                                  *)
LastDraw == CHOOSE i \in At("draw") : \A j \in At("draw") : j <= i
FlushesSinceDraw == {k \in At("flush") : k > LastDraw}

C6_FlushOncePerFrame ==
    Complete =>
        /\ pc = "pixels" => FlushesSinceDraw = {}
        /\ pc \in {"poll", "sleep", "fatal"} =>
              /\ Cardinality(FlushesSinceDraw) = 1
              /\ \A k \in FlushesSinceDraw : trace[k].n = Len(wr)
        /\ \A i \in At("draw") :
              (\E j \in At("draw") : j > i) =>
                  Cardinality({k \in At("flush") : k > i /\
                                  \A j \in At("draw") : j > i => k < j}) = 1

\* a frame of several pixel writes, flushed once after them
C6_Witness ==
    /\ pc = "poll" /\ Complete
    /\ Len(wr) >= 2
    /\ Cardinality(FlushesSinceDraw) = 1

\* a frame whose region is empty, flushed all the same
C6_WitnessEmpty ==
    /\ pc = "poll" /\ Complete
    /\ BlitTarget = {}
    /\ Cardinality(FlushesSinceDraw) = 1

----------------------------------------------------------------------------
(* C7: clear(color) with non-zero alpha has invoked flush() after its last  *)
(* pixel write by the time it returns.                                      *)
C7_ClearFlushes ==
    (pc = "image" /\ args.clear /\ c.a # 0 /\ Complete) =>
        \E k \in At("flush") : \A i \in At("clear") : k > i

----------------------------------------------------------------------------
(* C8: clear(color) with alpha 0 changes no byte of the surface buffer: it  *)
(* never enters its pixel loops and the buffer is as it was at the call.    *)
C8_ClearTransparentNoop ==
    (args.clear /\ c.a = 0) =>
        /\ pc # "clear"
        /\ (pc = "image") => buf = buf0 /\ wr = <<>>

\* --clear ff0000 (alpha left 0) on a non-blank buffer has returned
C8_Witness ==
    /\ pc = "image" /\ args.clear
    /\ c.a = 0 /\ c.r = 255
    /\ At("clear") # {}
    /\ buf[1] # 0

----------------------------------------------------------------------------
(* C9: clear(color) with alpha 255 sets every pixel of surface /\ resolved  *)
(* viewport to encode_rgb(r, g, b) | encode_alpha(255) whatever it held,    *)
(* and leaves every other pixel unchanged; a viewport dimension of -1 is    *)
(* the surface's, so the default viewport is the whole surface.             *)
ResolvedW == IF view.w = -1 THEN sw ELSE view.w
ResolvedH == IF view.h = -1 THEN sh ELSE view.h
ResolvedView ==
    constraint(TruncDiv(2 * view.ox + (sw - ResolvedW) * view.ax, 2),
               TruncDiv(2 * view.oy + (sh - ResolvedH) * view.ay, 2),
               ResolvedW, ResolvedH)

PixelWord(b, p) == load(b, (p[1] + p[2] * sw) * pixel_bytes(fmt), pixel_bytes(fmt))

C9_ClearOpaqueFills ==
    (pc = "image" /\ args.clear /\ c.a = 255) =>
        /\ \A p \in Pixels :
              IF Inside(ResolvedView, p)
              THEN PixelWord(buf, p) =
                     (encode_rgb(fmt, c.r, c.g, c.b) \cup encode_alpha(fmt, 255))
                       \cap (0..(8 * pixel_bytes(fmt) - 1))
              ELSE PixelWord(buf, p) = PixelWord(buf0, p)
        /\ (view = viewport_default) => \A p \in Pixels : Inside(ResolvedView, p)

\* an opaque clear through a viewport that covers part of the surface
C9_Witness ==
    /\ pc = "image" /\ args.clear /\ c.a = 255
    /\ view # viewport_default
    /\ wr # <<>> /\ Len(wr) < sw * sh
    /\ buf # buf0

----------------------------------------------------------------------------
(* C10: every pixel written by blit_frame or clear holds the full mask in   *)
(* its alpha field, whatever the source alpha (1..255) and with or without  *)
(* blending.                                                                *)
C10_AlphaForcedOpaque ==
    \A i \in 1..Len(wr) :
        field(fmt.a, load(buf, wr[i], pixel_bytes(fmt))) = fmt.a.mask

\* an unblended frame on the DRM layout wrote a source pixel of alpha 128
C10_Witness ==
    /\ FrameDone /\ dev = "drm" /\ ~img.blend
    /\ \E p \in BlitTarget :
          /\ SourceAlpha(p) = 128
          /\ field(fmt.a, PixelWord(buf, p)) = 255
          /\ field(fmt.a, PixelWord(buf0, p)) # 255

----------------------------------------------------------------------------
(* Vocabulary of the format properties *)

\* the call under study has ended
Called(op) == call.op = op /\ ret # <<>>

\* the bit-field [O, O + L) of a channel
FieldBits(ch) == ch.offset..(ch.offset + ch.length - 1)

\* the number a pixel word holds in the field of a channel
FieldValue(ch, word) == SumPow2({i \in 0..(ch.length - 1) : (ch.offset + i) \in word})

\* the word that holds the number n at bit offset O
Shifted(n, O) == {O + i : i \in Bits(n)}

\* floor(floor(v * mask / 255) * 255 / mask) for mask = 2^L - 1
Quantized(L, v) == ((((v * (2 ^ L - 1)) \div 255) * 255) \div (2 ^ L - 1))

\* the bit-fields of r, g and b have no bit in common
DisjointFields(f) ==
    /\ FieldBits(f.r) \cap FieldBits(f.g) = {}
    /\ FieldBits(f.g) \cap FieldBits(f.b) = {}
    /\ FieldBits(f.r) \cap FieldBits(f.b) = {}

----------------------------------------------------------------------------
(* C11: for a used channel of length L in 1..8 at offset O, with mask =      *)
(* 2^L - 1: encode(v) is floor(v * mask / 255) shifted left by O and has no *)
(* bit outside [O, O + L); decode(p) returns floor(field * 255 / mask) for  *)
(* the field ((p >> O) & mask), whatever the bits of p outside the field.   *)
(* Channel(6, 3) decodes 0b111111101 to 255, 0b011111101 to 125 and         *)
(* 0b111000000111 to 0, and encodes 255, 125, 0 to 0b111111000,             *)
(* 0b011110000, 0.                                                          *)
C11_ChannelCodec ==
    /\ (Called("encode") /\ call.ch.length \in 1..8) =>
          /\ ret[1] = Shifted((call.value * (2 ^ call.ch.length - 1)) \div 255,
                              call.ch.offset)
          /\ ret[1] \subseteq FieldBits(call.ch)
    /\ (Called("decode") /\ call.ch.length \in 1..8) =>
          /\ ret[1] = returned((FieldValue(call.ch, call.value) * 255)
                                 \div (2 ^ call.ch.length - 1))
          /\ ret[1] \in decode(call.ch, call.value \cap FieldBits(call.ch))
    /\ (Called("decode") /\ call.ch = channel(6, 3)) =>
          /\ (call.value = Bits(509)) => ret[1] = returned(255)
          /\ (call.value = Bits(253)) => ret[1] = returned(125)
          /\ (call.value = Bits(3591)) => ret[1] = returned(0)
    /\ (Called("encode") /\ call.ch = channel(6, 3)) =>
          /\ (call.value = 255) => ret[1] = Bits(504)
          /\ (call.value = 125) => ret[1] = Bits(240)
          /\ (call.value = 0) => ret[1] = {}

\* Channel(6, 3) has decoded a word with bits set on both sides of its field
C11_Witness ==
    /\ Called("decode") /\ call.ch = channel(6, 3)
    /\ call.value = Bits(253)
    /\ ret = <<returned(125)>>

\* Channel(6, 3) has encoded 125
C11_WitnessEncode ==
    /\ Called("encode") /\ call.ch = channel(6, 3)
    /\ call.value = 125 /\ ret = <<Bits(240)>>

----------------------------------------------------------------------------
(* C12: encode_rgb(r, g, b) is the bitwise OR of the three channel           *)
(* encodings; for a layout whose r, g and b fields are disjoint, decoding   *)
(* the encoded word gives, per channel, that channel's own round trip       *)
(* floor(floor(v * mask / 255) * 255 / mask).  In 565, encode_rgb(255, 125, *)
(* 0) is 0b1111101111000000 and decode_rgb(0b1111101111100000) is           *)
(* (255, 125, 0).                                                           *)
C12_RgbCodec ==
    /\ (call.op = "encode_rgb" /\ Len(ret) >= 1) =>
          /\ ret[1] = Shifted((call.r * call.f.r.mask) \div 255, call.f.r.offset)
                       \cup Shifted((call.g * call.f.g.mask) \div 255, call.f.g.offset)
                       \cup Shifted((call.b * call.f.b.mask) \div 255, call.f.b.offset)
          /\ (call.f = Fb565Format /\ call.r = 255 /\ call.g = 125 /\ call.b = 0)
                => ret[1] = Bits(64448)
    /\ (call.op = "encode_rgb" /\ Len(ret) = 2 /\ DisjointFields(call.f)) =>
          ret[2] = returned([r |-> Quantized(call.f.r.length, call.r),
                             g |-> Quantized(call.f.g.length, call.g),
                             b |-> Quantized(call.f.b.length, call.b)])
    /\ (Called("decode_rgb") /\ DisjointFields(call.f)) =>
          ret[1] = returned([r |-> (FieldValue(call.f.r, call.pixel) * 255) \div call.f.r.mask,
                             g |-> (FieldValue(call.f.g, call.pixel) * 255) \div call.f.g.mask,
                             b |-> (FieldValue(call.f.b, call.pixel) * 255) \div call.f.b.mask])
    /\ (Called("decode_rgb") /\ call.f = Fb565Format /\ call.pixel = Bits(64480)) =>
          ret[1] = returned([r |-> 255, g |-> 125, b |-> 0])

\* 565 has encoded (255, 125, 0) and decoded the word again, losing green bits
C12_Witness ==
    /\ call.op = "encode_rgb" /\ Len(ret) = 2
    /\ call.f = Fb565Format
    /\ call.r = 255 /\ call.g = 125 /\ call.b = 0
    /\ ret[1] = Bits(64448)
    /\ ret[2] = returned([r |-> 255, g |-> 121, b |-> 0])

----------------------------------------------------------------------------
(* C13, as stated: color() is true if and only if r, g and b are all used   *)
(* and their bit-fields are pairwise non-overlapping.                       *)
C13_ColorIffDisjointFields ==
    Called("color") =>
        (ret[1] <=> (/\ call.f.r.mask # 0 /\ call.f.g.mask # 0 /\ call.f.b.mask # 0
                     /\ DisjointFields(call.f)))

(* C13, amended: color() is true if and only if r, g and b are all used and *)
(* their offsets are pairwise different; fields that overlap at different   *)
(* offsets still make color() true, and disjoint used fields always do.     *)
C13_ColorIffDistinctOffsets ==
    Called("color") =>
        /\ (ret[1] <=> (/\ call.f.r.mask # 0 /\ call.f.g.mask # 0 /\ call.f.b.mask # 0
                        /\ call.f.r.offset # call.f.g.offset
                        /\ call.f.g.offset # call.f.b.offset
                        /\ call.f.r.offset # call.f.b.offset))
        /\ ((call.f.r.mask # 0 /\ call.f.g.mask # 0 /\ call.f.b.mask # 0
              /\ DisjointFields(call.f)) => ret[1])

\* color() has answered true for three used 8-bit fields at offsets 0, 4, 8
C13_Witness ==
    /\ Called("color")
    /\ call.f.r = channel(8, 0) /\ call.f.g = channel(8, 4) /\ call.f.b = channel(8, 8)
    /\ ~DisjointFields(call.f)
    /\ ret = <<TRUE>>

----------------------------------------------------------------------------
(* C14: decode(p) on an unused channel (length 0, mask 0) returns 0 for     *)
(* every pixel word p, and does so without a division by the zero mask, so  *)
(* that the call cannot trap.                                               *)
C14_UnusedDecodesZero ==
    (Called("decode") /\ call.ch.mask = 0) => ret[1] = returned(0)

----------------------------------------------------------------------------
(* C15: the intersection of two disjoint boxes of positive size has width   *)
(* <= 0 or height <= 0 (clear intersects the surface with the viewport),    *)
(* and a blit_frame or clear whose region has width <= 0 or height <= 0     *)
(* never enters its inner loop body: no pixel is read or written, the       *)
(* buffer stays as it was, and the call goes on to its end.                 *)
Degenerate(box) == width(box) <= 0 \/ height(box) <= 0
PositiveSize(box) == width(box) > 0 /\ height(box) > 0

C15_EmptyRegionNoIteration ==
    /\ (PositiveSize(scrc) /\ PositiveSize(viewc) /\ ClearTarget = {})
          => Degenerate(get_constraint_intersection(<<scrc, viewc>>))
    /\ (pc = "clear" /\ Degenerate(clear_region))
          => x = 0 /\ wr = <<>> /\ buf = buf0
    /\ (pc = "image" /\ args.clear /\ c.a # 0 /\ Degenerate(clear_region))
          => wr = <<>> /\ buf = buf0
             /\ (Complete => \E k \in At("cleared") : trace[k].n = 0)
    /\ (InFrame /\ Degenerate(blit_region))
          => x = 0 /\ wr = <<>> /\ buf = buf0 /\ pc # "fatal"
    /\ (FrameDone /\ Degenerate(blit_region) /\ Complete)
          => \E k \in At("flush") : k > LastDraw /\ trace[k].n = 0

\* an opaque clear through a viewport beside the surface has returned
C15_Witness ==
    /\ pc = "image" /\ args.clear /\ c.a = 255
    /\ PositiveSize(viewc) /\ ClearTarget = {}
    /\ width(clear_region) < 0
    /\ At("cleared") # {}

\* a frame whose image lies beside its viewport has been drawn and flushed
C15_WitnessFrame ==
    /\ FrameDone /\ Complete
    /\ PositiveSize(viewc) /\ Inside(scrc, <<viewc.min.x, viewc.min.y>>)
    /\ Degenerate(blit_region)
    /\ wr = <<>>

----------------------------------------------------------------------------
(* C16: get_position(canvas) is, per axis, canvas.min + (canvas.size -      *)
(* self.size) * anchor + offset: exactly so whenever that value is whole    *)
(* (anchor 0: canvas.min + offset; anchor 1: canvas.max - size + offset;    *)
(* anchor 0.5 and an even size difference: the centre), otherwise the whole *)
(* number next to it toward zero.  Anchor (0.5, 0.5), zero offset, 10x10 in *)
(* the canvas 100x100 at the origin gives (45, 45).  get_constraint(canvas) *)
(* is the box with that min and the size (w, h).                            *)
\* twice the exact placement on one axis, for an anchor a given in halves
Twice(cmin, csize, size, a, off) == 2 * cmin + (csize - size) * a + 2 * off

Placed(p, cmin, csize, size, a, off) ==
    /\ (Twice(cmin, csize, size, a, off) % 2 = 0) => 2 * p = Twice(cmin, csize, size, a, off)
    /\ (Twice(cmin, csize, size, a, off) % 2 = 1) =>
          2 * p = Twice(cmin, csize, size, a, off)
                    + (IF Twice(cmin, csize, size, a, off) > 0 THEN -1 ELSE 1)
    /\ (a = 0) => p = cmin + off
    /\ (a = 2) => p = (cmin + csize) - size + off
    /\ (a = 1 /\ (csize - size) % 2 = 0) => p = cmin + (csize - size) \div 2 + off

PlacedIn(p, v, cv) ==
    /\ Placed(p.x, cv.min.x, cv.max.x - cv.min.x, v.w, v.ax, v.ox)
    /\ Placed(p.y, cv.min.y, cv.max.y - cv.min.y, v.h, v.ay, v.oy)

C16_AnchoredPlacement ==
    /\ Called("get_position") =>
          /\ PlacedIn(ret[1], call.v, call.canvas)
          /\ (/\ call.v = [w |-> 10, h |-> 10, ax |-> 1, ay |-> 1, ox |-> 0, oy |-> 0]
              /\ call.canvas = [min |-> [x |-> 0, y |-> 0], max |-> [x |-> 100, y |-> 100]])
                => ret[1] = [x |-> 45, y |-> 45]
    /\ Called("get_constraint") =>
          /\ PlacedIn(ret[1].min, call.v, call.canvas)
          /\ ret[1].max.x - ret[1].min.x = call.v.w
          /\ ret[1].max.y - ret[1].min.y = call.v.h

\* the 10x10 viewport centred in the 100x100 canvas
C16_Witness ==
    /\ Called("get_position")
    /\ call.v = [w |-> 10, h |-> 10, ax |-> 1, ay |-> 1, ox |-> 0, oy |-> 0]
    /\ call.canvas = [min |-> [x |-> 0, y |-> 0], max |-> [x |-> 100, y |-> 100]]
    /\ ret = <<[x |-> 45, y |-> 45]>>

\* anchored bottom-right with an offset in a canvas off the origin
C16_WitnessCorner ==
    /\ Called("get_constraint")
    /\ call.v.ax = 2 /\ call.v.ay = 2 /\ call.v.w = 2 /\ call.v.ox = 3
    /\ call.canvas.min.x = 5 /\ width(call.canvas) = 4
    /\ ret[1].min.x = 10 /\ ret[1].max.x = 12

----------------------------------------------------------------------------
(* C17: blit_frame places the image in the resolved viewport rectangle, not *)
(* in the surface rectangle: the image rectangle starts at the image's      *)
(* anchored position within the viewport, so that with anchor (0, 0) and    *)
(* offset (0, 0) its top-left pixel is the viewport's top-left corner and   *)
(* with anchor (1, 1) its bottom-right corner is the viewport's; the pixels *)
(* an unblended frame writes are the image's pixels at that place.          *)
ImageOrigin ==
    position(TruncDiv(Twice(ResolvedView.min.x, ResolvedW, img.w, img.ax, img.ox), 2),
             TruncDiv(Twice(ResolvedView.min.y, ResolvedH, img.h, img.ay, img.oy), 2))

ImageRect == constraint(ImageOrigin.x, ImageOrigin.y, img.w, img.h)

\* the RGBA source pixel of the image that lies over surface pixel p
SourcePixel(p) ==
    LET k == 4 * ((p[1] - ImageOrigin.x) + (p[2] - ImageOrigin.y) * img.w)
    IN  [r |-> img.data[frame + 1][k + 1], g |-> img.data[frame + 1][k + 2],
         b |-> img.data[frame + 1][k + 3], a |-> img.data[frame + 1][k + 4]]

C17_ImageAnchorsToViewport ==
    InFrame =>
        /\ imgc.min = ImageOrigin
        /\ (img.ax = 0 /\ img.ay = 0 /\ img.ox = 0 /\ img.oy = 0)
              => imgc.min = ResolvedView.min
        /\ (img.ax = 2 /\ img.ay = 2 /\ img.ox = 0 /\ img.oy = 0)
              => imgc.max = ResolvedView.max
        /\ (FrameDone /\ ~img.blend) =>
              \A p \in Pixels :
                 IF Inside(ResolvedView, p) /\ Inside(ImageRect, p) /\ SourcePixel(p).a # 0
                 THEN PixelWord(buf, p) =
                        (encode_rgb(fmt, SourcePixel(p).r, SourcePixel(p).g, SourcePixel(p).b)
                           \cup encode_alpha(fmt, 255)) \cap (0..(8 * pixel_bytes(fmt) - 1))
                 ELSE PixelWord(buf, p) = PixelWord(buf0, p)

\* anchor (0, 0): the image starts at the corner of a viewport off the origin
C17_Witness ==
    /\ FrameDone /\ ~img.blend
    /\ img.ax = 0 /\ img.ay = 0 /\ img.ox = 0 /\ img.oy = 0
    /\ ResolvedView.min # scrc.min
    /\ Inside(scrc, <<ResolvedView.min.x, ResolvedView.min.y>>)
    /\ imgc.min = ResolvedView.min
    /\ wr # <<>>

\* anchor (1, 1): the image ends at the corner of a viewport inside the surface
C17_WitnessCorner ==
    /\ FrameDone /\ ~img.blend
    /\ img.ax = 2 /\ img.ay = 2 /\ img.ox = 0 /\ img.oy = 0
    /\ ResolvedView.max # scrc.max
    /\ imgc.max = ResolvedView.max
    /\ wr # <<>>

----------------------------------------------------------------------------
(* Vocabulary of the colour text properties *)

IsHexDigit(ch) == ch \in (48..57) \cup (65..70) \cup (97..102)

HexDigitValue(ch) ==
    IF ch \in 48..57 THEN ch - 48 ELSE IF ch \in 65..70 THEN ch - 55 ELSE ch - 87

\* the byte written by the two characters of t from position i (1-based)
HexByte(t, i) == 16 * HexDigitValue(t[i]) + HexDigitValue(t[i + 1])

\* the text without one leading "#" or "0x"
Unprefixed(t) ==
    IF Len(t) >= 1 /\ t[1] = 35 THEN SubSeq(t, 2, Len(t))
    ELSE IF Len(t) >= 2 /\ t[1] = 48 /\ t[2] = 120 THEN SubSeq(t, 3, Len(t))
    ELSE t

AllHex(t) == \A i \in 1..Len(t) : IsHexDigit(t[i])

\* "zz0000"
TextZZ0000 == <<122, 122, 48, 48, 48, 48>>

----------------------------------------------------------------------------
(* C18: parse of a non-empty text succeeds exactly when, after one optional *)
(* leading "#" or "0x" is removed, 6 or 8 characters remain and all are hex *)
(* digits, and throws otherwise.  Six digits give r, g, b from the three    *)
(* pairs whatever the prefix; eight give alpha from the first pair and r,   *)
(* g, b from the next three.  "zz0000" fails; the empty text gives the      *)
(* all-zero colour.                                                         *)
C18_ParseColorText ==
    Called("parse") =>
        /\ (call.text = <<>>) => ret[1] = returned(color_zero)
        /\ (call.text # <<>>) =>
              (ret[1].signal = "" <=>
                  (Len(Unprefixed(call.text)) \in {6, 8} /\ AllHex(Unprefixed(call.text))))
        /\ (ret[1].signal # "") => ret[1].signal = "runtime_error"
        /\ (Len(Unprefixed(call.text)) = 6 /\ AllHex(Unprefixed(call.text))) =>
              /\ ret[1].value.r = HexByte(Unprefixed(call.text), 1)
              /\ ret[1].value.g = HexByte(Unprefixed(call.text), 3)
              /\ ret[1].value.b = HexByte(Unprefixed(call.text), 5)
        /\ (Len(Unprefixed(call.text)) = 8 /\ AllHex(Unprefixed(call.text))) =>
              ret[1].value = [a |-> HexByte(Unprefixed(call.text), 1),
                              r |-> HexByte(Unprefixed(call.text), 3),
                              g |-> HexByte(Unprefixed(call.text), 5),
                              b |-> HexByte(Unprefixed(call.text), 7)]
        /\ (call.text = TextZZ0000) => ret[1].signal # ""

\* "0xff7Da9" has been parsed to (255, 125, 169)
C18_Witness ==
    /\ Called("parse")
    /\ call.text = <<48, 120, 102, 102, 55, 68, 97, 57>>
    /\ ret[1].signal = ""
    /\ ret[1].value.r = 255 /\ ret[1].value.g = 125 /\ ret[1].value.b = 169

\* "zz0000" has been refused
C18_WitnessRefused ==
    /\ Called("parse")
    /\ call.text = TextZZ0000
    /\ ret[1].signal = "runtime_error"

----------------------------------------------------------------------------
(* C19: a --clear colour text of 6 hex digits, with or without prefix, is   *)
(* parsed to alpha 0, and the clear that follows writes no pixel; whenever  *)
(* clear enters its loops or changes the buffer, the text had 8 hex digits  *)
(* and its first two, the alpha byte, were not zero.                        *)
ClearText == Unprefixed(args.color)
SixDigits == Len(ClearText) = 6 /\ AllHex(ClearText)
EightDigitsWithAlpha ==
    Len(ClearText) = 8 /\ AllHex(ClearText) /\ HexByte(ClearText, 1) # 0

C19_SixDigitsClearNothing ==
    (args.clear /\ pc # "entry") =>
        /\ (SixDigits /\ args.color[1] # 45) =>
              /\ c.a = 0
              /\ c.r = HexByte(ClearText, 1)
              /\ pc \notin {"clear", "error"}
              /\ At("cleared") = {}
              /\ (pc = "image") => wr = <<>> /\ buf = buf0
        /\ (pc = "clear" \/ At("cleared") # {}) => EightDigitsWithAlpha
        /\ (pc \in {"clear", "image"} /\ buf # buf0) => EightDigitsWithAlpha

\* --clear "#ff0000" on a non-blank buffer has returned without a write
C19_Witness ==
    /\ pc = "image" /\ args.clear
    /\ args.color = <<35, 102, 102, 48, 48, 48, 48>>
    /\ c = [r |-> 255, g |-> 0, b |-> 0, a |-> 0]
    /\ At("clear") # {}
    /\ buf[1] # 0 /\ buf = buf0

\* --clear "ffff7d00" has changed the buffer
C19_WitnessOpaque ==
    /\ pc = "image" /\ args.clear
    /\ args.color = <<102, 102, 102, 102, 55, 100, 48, 48>>
    /\ c.a = 255
    /\ buf # buf0

----------------------------------------------------------------------------
(* C20: the framebuffer constructor opens its candidates strictly in the    *)
(* order explicit path (if given), /dev/fb0, /dev/fb/0; the first candidate *)
(* whose open succeeds (returns a descriptor) is the one initialised and no *)
(* later candidate is opened; construction fails with the "out of ideas"    *)
(* error exactly when every candidate failed to open.                       *)
FbOrder == IF fbdev.path THEN FbCandidates ELSE Tail(FbCandidates)

C20_FirstOpenableUsed ==
    /\ Len(fbdev.opens) <= Len(FbOrder)
    /\ \A i \in 1..Len(fbdev.opens) : fbdev.opens[i].dev = FbOrder[i]
    /\ \A i \in 1..Len(fbdev.opens) :
          (fbdev.opens[i].fh >= 0) =>
              /\ i = Len(fbdev.opens)
              /\ fbdev.handle = fbdev.opens[i].fh
              /\ fbdev.at \notin {"path", "/dev/fb0", "/dev/fb/0"}
              /\ fbdev.what # "out of ideas, unable to open any framebuffer"
    /\ (fbdev.what = "out of ideas, unable to open any framebuffer") =>
          /\ fbdev.at = "failed"
          /\ Len(fbdev.opens) = Len(FbOrder)
          /\ \A i \in 1..Len(fbdev.opens) : fbdev.opens[i].fh = -1

----------------------------------------------------------------------------
(* Vocabulary of the framebuffer construction properties *)

\* the constructor of framebuffer_screen has passed its format check
FbChecked ==
    \/ fbdev.at \in {"requery", "ready", "destroyed"}
    \/ fbdev.at = "failed" /\ fbdev.first # info_none

\* the constructor has ended, with the object or with an exception
FbEnded == fbdev.at \in {"ready", "destroyed", "failed"}

\* the calls made on the device end with the destructor's two
FbTornDown ==
    /\ Len(fbdev.log) >= 2
    /\ fbdev.log[Len(fbdev.log) - 1] = "munmap"
    /\ fbdev.log[Len(fbdev.log)] = "close"
    /\ \A i \in 1..(Len(fbdev.log) - 2) : fbdev.log[i] \notin {"munmap", "close"}

----------------------------------------------------------------------------
(* C21: the constructor of framebuffer_screen issues at most one            *)
(* format-change request to the device, and only when the format first      *)
(* queried fails the colour check or signals FOURCC; the request the device *)
(* receives is for 32 bits, R 8 @0, G 8 @8, B 8 @16, no alpha; after the    *)
(* optional request the device is queried again, and construction succeeds  *)
(* exactly when the format queried again passes the colour check.           *)
C21_OneFormatRequest ==
    /\ Len(fbdev.asked) <= 1
    /\ Len(fbdev.put) = Len(fbdev.asked)
    /\ Cardinality({i \in 1..Len(fbdev.log) : fbdev.log[i] = "store"}) = Len(fbdev.asked)
    /\ FbChecked =>
          (fbdev.asked # <<>> <=> (~has_color(fbdev.first) \/ has_fourcc(fbdev.first)))
    /\ \A i \in 1..Len(fbdev.asked) :
          /\ get_format(fbdev.asked[i]) = FbFallbackFormat
          /\ fbdev.put[i].valid
          /\ get_format(fbdev.put[i].var) = FbFallbackFormat
    /\ (fbdev.at \in {"ready", "destroyed"}) =>
          /\ has_color(fbdev.info)
          /\ fbdev.log[Len(fbdev.log) - (IF fbdev.at = "ready" THEN 0 ELSE 2)] = "load"
    /\ (fbdev.at = "failed" /\ fbdev.what = "Failed to enable color support!") =>
          ~has_color(fbdev.info)
    /\ (FbEnded /\ FbChecked) =>
          (fbdev.at = "failed" <=> (fbdev.info = info_none \/ ~has_color(fbdev.info)))

----------------------------------------------------------------------------
(* C22: once the framebuffer backend holds an opened device handle, the     *)
(* teardown (unmap, then close) has happened whenever construction has      *)
(* failed or the screen has been destroyed, however far initialisation got. *)
C22_TeardownAlways ==
    (fbdev.handle # -1 /\ fbdev.at \in {"failed", "destroyed"}) => FbTornDown

----------------------------------------------------------------------------
(* Vocabulary of the DRM selection properties *)

\* a connector the specification lets the backend select
Qualifies(connector) ==
    /\ connector.present
    /\ Len(connector.modes) >= 1
    /\ connector.connection = "connected"

PixelArea(m) == m.hdisplay * m.vdisplay

Preferred(modes) == {i \in 1..Len(modes) : modes[i].preferred}

Largest(modes) ==
    {i \in 1..Len(modes) : \A j \in 1..Len(modes) : PixelArea(modes[j]) <= PixelArea(modes[i])}

Lowest(S) == CHOOSE i \in S : \A j \in S : i <= j

----------------------------------------------------------------------------
(* C23: pick_connector returns the first connector, in enumeration order,   *)
(* that has at least one mode and whose connection state is "connected"; a  *)
(* connector without modes or in another state is never returned; it throws *)
(* when no connector qualifies.                                             *)
C23_FirstConnected ==
    Called("pick_connector") =>
        IF \E i \in 1..Len(call.resource) : Qualifies(call.resource[i])
        THEN ret[1] = returned(Lowest({i \in 1..Len(call.resource) :
                                          Qualifies(call.resource[i])}))
        ELSE ret[1].signal = "runtime_error"

----------------------------------------------------------------------------
(* C24: pick_mode returns a mode flagged preferred if the connector has     *)
(* one; otherwise the mode with the largest hdisplay * vdisplay, the        *)
(* earliest of them on a tie; it throws when the connector has no mode.     *)
C24_ModeSelection ==
    Called("pick_mode") =>
        /\ (Len(call.connector.modes) = 0) <=> (ret[1].signal = "runtime_error")
        /\ (Preferred(call.connector.modes) # {}) =>
              /\ ret[1].signal = ""
              /\ ret[1].value \in Preferred(call.connector.modes)
        /\ (Len(call.connector.modes) > 0 /\ Preferred(call.connector.modes) = {}) =>
              ret[1] = returned(Lowest(Largest(call.connector.modes)))

\* 1x1, 2x1, 1x2 without a preferred mode: the tie of area 2 went to the second
C24_Witness ==
    /\ Called("pick_mode")
    /\ call.connector.modes =
          <<drm_mode(FALSE, 1, 1), drm_mode(FALSE, 2, 1), drm_mode(FALSE, 1, 2)>>
    /\ ret[1] = returned(2)

\* a preferred 1x1 after a larger mode was returned
C24_WitnessPreferred ==
    /\ Called("pick_mode")
    /\ call.connector.modes = <<drm_mode(FALSE, 2, 2), drm_mode(TRUE, 1, 1)>>
    /\ ret[1] = returned(2)

----------------------------------------------------------------------------
(* Vocabulary of the DRM object properties *)

DrmLog == drmdev.log

\* the positions of the calls made by one function of the object
CallsBy(by) == {i \in 1..Len(DrmLog) : DrmLog[i].by = by}

IsDestructorCall(e) == e.by = "~drm"

\* the names of the destructor's calls, in order
DestructorCalls ==
    [i \in 1..Len(SelectSeq(DrmLog, IsDestructorCall)) |->
        SelectSeq(DrmLog, IsDestructorCall)[i].call]

\* the order of release the specification gives: CRTC handle, framebuffer
\* id, connector handle, dumb buffer, mapping if there is one, descriptor
ReleaseOrder ==
    <<{"crtc"}, {"fb"}, {"conn"}, {"dumb"}>>
        \o (IF drmdev.buffer = "mapped" THEN <<{"map"}>> ELSE <<>>)
        \o <<{"fd"}>>

----------------------------------------------------------------------------
(* C25: every flush() acquires master, mode-sets the CRTC to the object's   *)
(* own framebuffer id and drops master, in this order; when master is       *)
(* refused flush throws without a mode-set; after a flush that returned,    *)
(* and after construction, the process does not hold master; construction   *)
(* never asks for master.                                                   *)
C25_FlushMasterProtocol ==
    (drmdev.at # "none") =>
        /\ \A i \in CallsBy("flush") :
              /\ (DrmLog[i].call = "drmSetMaster" /\ DrmLog[i].arg = "granted") =>
                    /\ i + 2 <= Len(DrmLog)
                    /\ DrmLog[i + 1] = DrmCall("flush", "drmModeSetCrtc", "own")
                    /\ DrmLog[i + 2] = DrmCall("flush", "drmDropMaster", "")
              /\ (DrmLog[i].call = "drmSetMaster" /\ DrmLog[i].arg = "refused") =>
                    /\ (i < Len(DrmLog)) => DrmLog[i + 1].by = "~drm"
                    /\ drmdev.what = "Unable to acquire master access!"
                    /\ drmdev.at \in {"thrown", "destroyed"}
              /\ (DrmLog[i].call = "drmModeSetCrtc") =>
                    /\ DrmLog[i].arg = "own"
                    /\ DrmLog[i - 1] = DrmCall("flush", "drmSetMaster", "granted")
              /\ (DrmLog[i].call = "drmDropMaster") =>
                    DrmLog[i - 1] = DrmCall("flush", "drmModeSetCrtc", "own")
        /\ Cardinality({i \in CallsBy("flush") : DrmLog[i].call = "drmSetMaster"})
              = drmdev.flushes
        /\ (drmdev.at = "ready") => ~drmdev.master
        /\ \A i \in CallsBy("drm") \cup CallsBy("init") : DrmLog[i].call # "drmSetMaster"

\* two flushes have returned: the display shows the object's buffer and
\* master is not held
C25_Witness ==
    /\ drmdev.at = "ready" /\ drmdev.flushes = 2
    /\ drmdev.scanout = "own" /\ ~drmdev.master
    /\ DrmLog[Len(DrmLog)] = DrmCall("flush", "drmDropMaster", "")

\* a flush was refused master after one that was granted it
C25_WitnessRefused ==
    /\ drmdev.at = "thrown" /\ drmdev.flushes = 2
    /\ DrmLog[Len(DrmLog)] = DrmCall("flush", "drmSetMaster", "refused")

----------------------------------------------------------------------------
(* C26: the destructor releases in this order: the CRTC (restored, then its *)
(* handle freed), the framebuffer id, the connector handle, the dumb        *)
(* buffer, the mapping if there is one, and the descriptor; the close is    *)
(* its last call and nothing is used after it.                              *)
C26_TeardownOrder ==
    (drmdev.at = "destroyed") =>
        /\ DestructorCalls =
              <<"drmSetMaster", "drmModeSetCrtc", "drmModeFreeCrtc", "drmModeGetFB",
                "drmModeFreeFB", "drmModeFreeConnector", "DRM_IOCTL_MODE_DESTROY_DUMB",
                "munmap", "close">>
        /\ DrmLog[Len(DrmLog)] = DrmCall("~drm", "close", "")
        /\ drmdev.held = {}
        /\ drmdev.released = ReleaseOrder

----------------------------------------------------------------------------
(* Vocabulary of the cancellation properties *)

\* blit() is over: it returned, or the exception of a flush left it
BlitOver == pc \in {"exit", "fatal"}

\* blit() runs without a frame to complete: no poll is ever reached
NeverPolls == img.frames = 0 /\ img.loops < 0

\* the draws and sleeps started after position i of the history
DrawsAfter(i) == {k \in At("draw") : k > i}
SleepsAfter(i) == {k \in At("sleep") : k > i}

----------------------------------------------------------------------------
(* C27, as stated: for every loops value and every frame_count >= 0, once   *)
(* the flag is set a running blit() eventually returns.                     *)
C27_CancelReturns == (is_interrupted /\ InBlit) ~> BlitOver

(* C27, amended: for every loops value and every frame_count >= 1, and for  *)
(* frame_count = 0 with loops >= 0, once the flag is set a running blit()   *)
(* eventually returns or is left by the error of its flush.                 *)
C27_CancelReturnsAfterFrame == (is_interrupted /\ InBlit /\ ~NeverPolls) ~> BlitOver

\* an endless animation of two frames was cancelled and blit() has returned
C27_Witness ==
    /\ pc = "exit" /\ is_interrupted
    /\ img.loops < 0 /\ img.frames = 2
    /\ Len(Drawn) >= 3
    /\ trace[Len(trace)].ev = "return"

\* the flag is set and blit() goes round its outer loop without a frame
C27_WitnessNoFrame ==
    /\ is_interrupted /\ NeverPolls
    /\ pc = "for" /\ count = -1

----------------------------------------------------------------------------
(* C28: the flag is never cleared; wherever it becomes set (before blit()   *)
(* is entered, during a frame draw, during a sleep), blit() starts at most  *)
(* one further blit_frame after that point and then returns, and it starts  *)
(* no sleep after a poll that observed the flag.                            *)
C28_AfterSignal ==
    /\ \A i \in At("signal") :
          /\ Cardinality(DrawsAfter(i)) <= 1
          /\ SleepsAfter(i) = {}
          /\ \A k \in At("return") : k > i
    /\ (is_interrupted /\ pc = "sleep" /\ Complete) =>
          \E i \in At("signal") : i = Len(trace) /\ trace[i - 1].ev = "sleep"
    /\ (is_interrupted /\ Complete /\ pc # "entry") => At("signal") # {}

C28_FlagStaysSet == [][is_interrupted => is_interrupted']_vars

C28_PollOncePerFrame == []C28_AfterSignal /\ C28_FlagStaysSet

\* the flag was set during a sleep: one more frame was drawn, then blit() returned
C28_Witness ==
    /\ pc = "exit"
    /\ \E i \in At("signal") :
          /\ i > 1 /\ trace[i - 1].ev = "sleep"
          /\ Cardinality(DrawsAfter(i)) = 1
          /\ trace[Len(trace)].ev = "return"

\* the flag was set before blit() was entered: one frame was drawn
C28_WitnessBefore ==
    /\ pc = "exit"
    /\ \E i \in At("signal") :
          /\ At("draw") # {}
          /\ \A k \in At("draw") : k > i
          /\ Cardinality(DrawsAfter(i)) = 1

----------------------------------------------------------------------------
(* Vocabulary of the image access property *)

\* blit_frame is about to read a source pixel: the loop conditions hold
ReadsPixel == pc = "pixels" /\ y < height(blit_region) /\ x < width(blit_region)

\* const size_t image_pixel = get_offset(io, x, y, img_width, 4) of that read
ImagePixel == get_offset(offset(imgc, blit_region), x, y, img.w, 4)

----------------------------------------------------------------------------
(* C29: every image access of blit() and blit_frame is in bounds: the frame *)
(* index handed to the image is in 0..frame_count-1, and every source pixel *)
(* offset read is a multiple of 4 in [0, 4*w*h), for every viewport and     *)
(* placement of the image.                                                  *)
C29_ImageAccessInBounds ==
    /\ (pc \in {"pixels", "poll", "sleep"}) => frame \in 0..(img.frames - 1)
    /\ \A i \in At("draw") : trace[i].n \in 0..(img.frames - 1)
    /\ ReadsPixel =>
          /\ ImagePixel % 4 = 0
          /\ ImagePixel >= 0
          /\ ImagePixel < 4 * img.w * img.h

\* the last pixel of a 2x2 image that starts left of the surface is read
C29_Witness ==
    /\ ReadsPixel
    /\ img.w = 2 /\ img.h = 2 /\ img.ox < 0
    /\ ImagePixel = 4 * img.w * img.h - 4

\* the third frame of an animation is being drawn
C29_WitnessFrame ==
    /\ pc = "pixels" /\ img.frames = 3 /\ frame = 2

----------------------------------------------------------------------------
(* C30: for a used channel of length 1..8 and v in 0..255,                  *)
(* decode(encode(v)) <= v, with 0 giving 0 and 255 giving 255; for length 8 *)
(* the round trip is exact; for every length below 8 it loses something:    *)
(* 1 comes back as 0 and 254 as less than 254.                              *)
C30_ChannelRoundTrip ==
    (call.op = "encode" /\ Len(ret) = 2 /\ call.ch.length \in 1..8) =>
        /\ ret[2].signal = ""
        /\ ret[2].value <= call.value
        /\ ret[2].value >= 0
        /\ (call.value = 0) => ret[2].value = 0
        /\ (call.value = 255) => ret[2].value = 255
        /\ (call.ch.length = 8) => ret[2].value = call.value
        /\ (call.ch.length < 8 /\ call.value \in {1, 254}) => ret[2].value < call.value

\* 125 through a channel of 5 bits at offset 3 came back as 123
C30_Witness ==
    /\ call.op = "encode" /\ call.ch = channel(5, 3) /\ call.value = 125
    /\ ret = <<Shifted(15, 3), returned(123)>>

\* 125 through a channel of 8 bits came back as 125
C30_WitnessExact ==
    /\ call.op = "encode" /\ call.ch = channel(8, 3) /\ call.value = 125
    /\ Len(ret) = 2 /\ ret[2] = returned(125)
====
